---- MODULE Spec2Model ----
(***************************************************************************)
(* Consensus-based secrets provisioning of the DC/OS bootstrap             *)
(* (packages/bootstrap/extra/dcos_internal_utils/bootstrap.py).            *)
(*                                                                         *)
(* Several bootstrap runs (one Bootstrapper object per run) execute role   *)
(* workflows of the `bootstrappers` table concurrently.  A run is          *)
(* sequential; the runs interleave at the granularity of one ZooKeeper     *)
(* command (create, sync, get, ensure_zk_path, set_acls).                  *)
(*                                                                         *)
(* Representation                                                          *)
(*   path    a sequence of path components, <<"dcos","RootCA">> is         *)
(*           '/dcos/RootCA', <<>> is '/'                                   *)
(*   bytes   a sequence of string tokens                                   *)
(*   tree    a tagged node: Str(s) is a Python str, Dict(kv) a Python dict *)
(*   acl     a sequence of ACL entries; Python None and [] are both <<>>   *)
(*           (both are falsy in `if acl:` and both mean the store default) *)
(*   random  the random material a Bootstrapper generates carries the      *)
(*           nonce of its seed: two Bootstrappers never generate the same  *)
(*           material                                                      *)
(*                                                                         *)
(* The account lists of the source are cut down to representatives (one    *)
(* ZooKeeper account, one master service account, two agent services):     *)
(* the code treats every account of a list alike.                          *)
(***************************************************************************)
EXTENDS Integers, Sequences, FiniteSets, TLC

\* number of concurrent bootstrap runs
NumProcs == 2

Procs == 1..NumProcs

VARIABLES
    opts,      \* the cluster-wide configuration every run loads (parse_args)
    zk,        \* the coordination store: path -> [value, acl, by]
    view,      \* view[p]: the paths the replica serving run p is known to hold
    wf,        \* wf[p]: the role workflow run p executes
    pos,       \* pos[p]: number of workflow calls run p has started
    pc,        \* pc[p]: "idle", "run" (inside a call), "done", "failed"
    frame,     \* frame[p]: the locals of the call in progress / last call
    secrets,   \* secrets[p]: Bootstrapper.secrets of run p
    hist,      \* hist[p]: what run p has proposed, read and returned so far
    earlier,   \* the workflows the earlier boot has still to go through
    boots,     \* boots[p]: the times the workflow of run p has been invoked again
    fs,        \* the files of one host: file -> [data, mode], absent if missing
    lock,      \* lock[dir]: the processes holding the lock on dir
    net,       \* the calls made to the identity service and the authority
    hpc,       \* hpc[p]: "ready", "run", "done", "failed" of process p of the host
    hloc,      \* hloc[p]: the call process p of the host makes, and its locals
    args,      \* the function of the configuration generator applied, and its arguments
    result,    \* what the function has returned or raised
    iam,       \* the identity service: accounts, group members, permissions
    reqs,      \* the requests the identity service has answered, in order
    ipc,       \* ipc[p]: "idle", "run", "done", "failed" of master p
    iloc,      \* iloc[p]: the workflow of master p, the calls it has still to
               \* make and has completed, the requests of the call in progress
    mat,       \* one _create_secrets against a store left by an earlier run:
               \* its arguments, the commands still to send, the tree it holds
    fx,        \* the iam_verify_and_reset fixture around one test: the block
               \* the generator is in, what the identity service holds, how
               \* verification, test and reset have gone
    acct,      \* the masters that agree on the credential of a service
               \* account and register it, the node that logs in with it:
               \* where each is, the credential it holds, what the identity
               \* service has registered
    role       \* one role workflow of the bootstrappers table on one node: the
               \* steps it has still to take, the service accounts its
               \* secrets hold, the local names it has bound, how it ended

\* the state of the cluster-wide runs, and the state local to one host
runvars == <<opts, view, wf, pos, pc, frame, secrets, hist, earlier, boots>>
hostvars == <<fs, lock, net, hpc, hloc>>

\* the state of an application of a function of the configuration generator
calcvars == <<args, result>>

\* the state that neither the runs of the cluster nor a host touch
\* the state of the masters that register accounts with the identity service
iamvars == <<iam, reqs, ipc, iloc>>

\* the state of one _create_secrets over a store left behind
matvars == <<mat>>

\* the state of a test that uses the iam_verify_and_reset fixture
fxvars == <<fx>>

\* the state of one role workflow followed step by step
rolevars == <<role>>

\* the state of the registration of one service account
acctvars == <<acct>>

others == <<calcvars, iamvars, matvars, fxvars, rolevars, acctvars>>

vars == <<opts, zk, view, wf, pos, pc, frame, secrets, hist, earlier, boots,
          fs, lock, net, hpc, hloc, args, result, iam, reqs, ipc, iloc,
          mat, fx, role, acct>>

\* the parts of the state that a specification leaves out stay empty
NoRuns ==
    /\ opts = <<>> /\ view = <<>> /\ wf = <<>> /\ pos = <<>> /\ pc = <<>>
    /\ frame = <<>> /\ secrets = <<>> /\ hist = <<>> /\ earlier = <<>>
    /\ boots = <<>>

NoHost == fs = <<>> /\ lock = <<>> /\ net = <<>> /\ hpc = <<>> /\ hloc = <<>>

NoCalc == args = <<>> /\ result = <<>>

NoIam == iam = <<>> /\ reqs = <<>> /\ ipc = <<>> /\ iloc = <<>>

NoMat == mat = <<>>

NoFx == fx = <<>>

NoRole == role = <<>>

NoAcct == acct = <<>>

NoOthers == NoCalc /\ NoIam /\ NoMat /\ NoFx /\ NoRole /\ NoAcct

----------------------------------------------------------------------------
(* Python values *)

Str(s) == [isdict |-> FALSE, s |-> s, kv |-> <<>>]
Dict(kv) == [isdict |-> TRUE, s |-> "", kv |-> kv]
EmptyDict == Dict(<<>>)

None == [some |-> FALSE, b |-> <<>>]
Some(b) == [some |-> TRUE, b |-> b]

\* Iteration order of dict keys: insertion order of the source's literals.
KeyOrder ==
    << "zk", "services", "CA", "private_keys", "RootCA",
       "dcos_bouncer", "dcos_cosmos",
       "dcos_adminrouter", "dcos_anonymous",
       "dcos_3dt_agent", "dcos_log_agent",
       "scheme", "username", "password", "uid", "private_key",
       "key", "certificate" >>

Items(d) == SelectSeq(KeyOrder, LAMBDA k : k \in DOMAIN d.kv)

\* str.encode('ascii') / bytes.decode('ascii')
encode(s) == <<s>>
decode(b) == b[1]

\* json.dumps of a dict of strings, as bytes: { k1 v1 k2 v2 ... }
RECURSIVE DumpItems(_, _)
DumpItems(d, keys) ==
    IF keys = <<>> THEN <<>>
    ELSE <<Head(keys), d.kv[Head(keys)].s>> \o DumpItems(d, Tail(keys))

json_dumps(d) == <<"{">> \o DumpItems(d, Items(d)) \o <<"}">>

\* json.loads of such bytes
json_loads(b) ==
    LET n == (Len(b) - 2) \div 2
        idx(k) == CHOOSE i \in 1..n : b[2 * i] = k
    IN  Dict([k \in {b[2 * i] : i \in 1..n} |-> Str(b[2 * idx(k) + 1])])

\* the node of a tree at a key path, and the tree with that node replaced
RECURSIVE TreeGet(_, _)
TreeGet(t, ks) ==
    IF ks = <<>> THEN t ELSE TreeGet(t.kv[Head(ks)], Tail(ks))

RECURSIVE TreeSet(_, _, _)
TreeSet(t, ks, v) ==
    IF ks = <<>> THEN v
    ELSE IF Len(ks) = 1 THEN Dict((Head(ks) :> v) @@ t.kv)
    ELSE Dict((Head(ks) :> TreeSet(t.kv[Head(ks)], Tail(ks), v)) @@ t.kv)

RECURSIVE TreeHas(_, _)
TreeHas(t, ks) ==
    IF ks = <<>> THEN TRUE
    ELSE /\ t.isdict
         /\ Head(ks) \in DOMAIN t.kv
         /\ TreeHas(t.kv[Head(ks)], Tail(ks))

----------------------------------------------------------------------------
(* ACLs (kazoo.security) *)

PermAll == {"r", "w", "c", "d", "a"}

ACL(perms, scheme, id) == [perms |-> perms, scheme |-> scheme, id |-> id]

ANYONE_CR == <<ACL({"c", "r"}, "world", <<"anyone">>)>>
ANYONE_READ == <<ACL({"r"}, "world", <<"anyone">>)>>
ANYONE_ALL == <<ACL(PermAll, "world", <<"anyone">>)>>
LOCALHOST_ALL == <<ACL(PermAll, "ip", <<"127.0.0.1">>)>>

\* make_digest_acl(u, p, ...): the id is u ':' base64(sha1(u ':' p))
make_digest_acl(u, p, perms) == ACL(perms, "digest", <<u, "sha1", u, p>>)

\* make_acl('digest', digest, read=True)
make_acl(scheme, id, perms) == ACL(perms, scheme, <<id>>)

----------------------------------------------------------------------------
(* Configuration *)

Modes == {"strict", "permissive", "disabled"}

\* gen_extra/calc.py: calculate_zk_acls_enabled
calculate_zk_acls_enabled(security) == security # "disabled"

\* parse_args: the credential files are not even looked at when security is
\* disabled; otherwise a credential is the content of its file.
ParseArgs(security) ==
    [ security |-> security,
      zk_acls_enabled |-> calculate_zk_acls_enabled(security),
      zk_master_creds |->
          IF security = "disabled" THEN None
          ELSE Some(<<"dcos_master", "master_pw">>),
      zk_agent_digest |->
          IF security = "disabled" THEN None
          ELSE Some(<<"dcos_agent:digest">>) ]

\* Bootstrapper.__init__: self.agent_services
agent_services == <<"dcos_3dt_agent", "dcos_log_agent">>

\* create_master_secrets: service_account_zk_creds
service_account_zk_creds == <<"dcos_cosmos">>

\* create_master_secrets: master_service_accounts
master_service_accounts(security) ==
    <<"dcos_adminrouter">> \o
    (IF security = "permissive" THEN <<"dcos_anonymous">> ELSE <<>>)

Range(seq) == {seq[i] : i \in DOMAIN seq}

\* the random material of run p
Nonce(p) == ToString(p)

\* {'scheme': 'digest', 'username': account, 'password': random_string(64)}
ZkCred(account, p) ==
    Dict(("scheme" :> Str("digest")) @@ ("username" :> Str(account)) @@
         ("password" :> Str("pw" \o Nonce(p))))

\* {'scheme': 'RS256', 'uid': account, 'private_key': generate_RSA_keypair()[0]}
ServiceCred(account, p) ==
    Dict(("scheme" :> Str("RS256")) @@ ("uid" :> Str(account)) @@
         ("private_key" :> Str("rsa" \o Nonce(p))))

\* The tree create_master_secrets proposes.
MasterSecrets(o, p) ==
    LET zk_creds ==
            IF o.zk_acls_enabled
            THEN Dict([a \in Range(service_account_zk_creds) |-> ZkCred(a, p)])
            ELSE EmptyDict
        service_account_creds ==
            Dict([a \in Range(master_service_accounts(o.security))
                      |-> ServiceCred(a, p)])
        ca_certs ==
            Dict("RootCA" :>
                 Dict(("key" :> Str("cakey" \o Nonce(p))) @@
                      ("certificate" :> Str("cacrt" \o Nonce(p)))))
        private_keys == Dict("dcos_bouncer" :> Str("rsa" \o Nonce(p)))
    IN  Dict(("zk" :> zk_creds) @@ ("services" :> service_account_creds) @@
             ("CA" :> ca_certs) @@ ("private_keys" :> private_keys))

\* The ACL create_master_secrets puts on the master secrets.
\* master secrets that anyone may read when no credentials are loaded
MasterSecretsAclWorldReadable(o) ==
    IF o.zk_master_creds.some
    THEN <<make_digest_acl(o.zk_master_creds.b[1], o.zk_master_creds.b[2], {"r"})>>
    ELSE ANYONE_READ

MasterSecretsAcl(o) ==
    IF o.zk_master_creds.some
    THEN <<make_digest_acl(o.zk_master_creds.b[1], o.zk_master_creds.b[2], {"r"})>>
    ELSE <<>>

\* The tree create_agent_secrets proposes.
AgentSecrets(p) ==
    Dict("services" :> Dict([a \in Range(agent_services) |-> ServiceCred(a, p)]))

\* The ACL create_agent_secrets puts on the agent secrets.
AgentSecretsAcl(o) ==
    IF o.zk_acls_enabled
    THEN <<make_acl("digest", o.zk_agent_digest.b[1], {"r"})>>
    ELSE <<>>

MasterSecretsPath == <<"dcos", "master", "secrets">>
AgentSecretsPath == <<"dcos", "agent", "secrets">>
ClusterIdPath == <<"cluster-id">>
RootCAPath == <<"dcos", "RootCA">>

----------------------------------------------------------------------------
(* The commands a call issues, in order *)

Op(op, path, value, acl, assign, dst) ==
    [op |-> op, path |-> path, value |-> value, acl |-> acl,
     assign |-> assign, dst |-> dst]

\* a _consensus that sends a create whether or not it has a value
ConsensusOpsAlwaysCreate(path, value, acl, assign, dst) ==
    <<Op("create", path, value.b, acl, "", <<>>),
      Op("sync", path, <<>>, <<>>, "", <<>>),
      Op("get", path, <<>>, <<>>, assign, dst)>>

\* a _consensus that reads before it syncs
ConsensusOpsReadFirst(path, value, acl, assign, dst) ==
    (IF value.some THEN <<Op("create", path, value.b, acl, "", <<>>)>> ELSE <<>>)
    \o <<Op("get", path, <<>>, <<>>, assign, dst),
         Op("sync", path, <<>>, <<>>, "", <<>>)>>

\* _consensus(path, value, acl): create unless value is None, then sync, get.
\* `assign` and `dst` say what the caller does with the bytes returned.
ConsensusOps(path, value, acl, assign, dst) ==
    (IF value.some THEN <<Op("create", path, value.b, acl, "", <<>>)>> ELSE <<>>)
    \o <<Op("sync", path, <<>>, <<>>, "", <<>>),
         Op("get", path, <<>>, <<>>, assign, dst)>>

\* a leaf test that takes a dict without values for an inner node
IsLeafUnlessEmpty(v) ==
    v.kv # <<>> /\ \A k \in DOMAIN v.kv : ~v.kv[k].isdict

\* a dict is a leaf when none of its values is a dict
IsLeaf(v) == \A k \in DOMAIN v.kv : ~v.kv[k].isdict

\* a _create_secrets that does not go over the ACL of a leaf again
RECURSIVE CreateSecretsOpsNoSetAcls(_, _, _, _, _)
CreateSecretsOpsNoSetAcls(basepath, tree, acl, keys, at) ==
    IF keys = <<>> THEN <<>>
    ELSE LET k == Head(keys)
             v == tree.kv[k]
             path == Append(basepath, k)
         IN  (IF ~IsLeaf(v)
              THEN CreateSecretsOpsNoSetAcls(path, v, acl, Items(v), Append(at, k))
              ELSE <<Op("ensure_zk_path", basepath, <<>>, acl, "", <<>>)>>
                   \o ConsensusOps(path, Some(json_dumps(v)), acl,
                                   "tree", Append(at, k)))
             \o CreateSecretsOpsNoSetAcls(basepath, tree, acl, Tail(keys), at)

\* a _create_secrets that ensures the base path of its first leaf only, with
\* the ACL of a new node left to the store
RECURSIVE CreateSecretsOpsEnsureOnce(_, _, _, _, _)
CreateSecretsOpsEnsureOnce(basepath, tree, acl, keys, at) ==
    IF keys = <<>> THEN <<>>
    ELSE LET k == Head(keys)
             v == tree.kv[k]
             path == Append(basepath, k)
         IN  (IF ~IsLeaf(v)
              THEN CreateSecretsOpsEnsureOnce(path, v, acl, Items(v), Append(at, k))
              ELSE (IF keys = Items(tree)
                    THEN <<Op("ensure_zk_path", basepath, <<>>, <<>>, "", <<>>)>>
                    ELSE <<>>)
                   \o ConsensusOps(path, Some(json_dumps(v)), acl,
                                   "tree", Append(at, k))
                   \o (IF acl # <<>>
                       THEN <<Op("set_acls", path, <<>>, acl, "", <<>>)>>
                       ELSE <<>>))
             \o CreateSecretsOpsEnsureOnce(basepath, tree, acl, Tail(keys), at)

\* a _create_secrets that keeps the leaves of a level at one path
RECURSIVE CreateSecretsOpsOnePath(_, _, _, _, _)
CreateSecretsOpsOnePath(basepath, tree, acl, keys, at) ==
    IF keys = <<>> THEN <<>>
    ELSE LET k == Head(keys)
             v == tree.kv[k]
             path == Append(basepath, k)
         IN  (IF ~IsLeaf(v)
              THEN CreateSecretsOpsOnePath(path, v, acl, Items(v), Append(at, k))
              ELSE <<Op("ensure_zk_path", basepath, <<>>, acl, "", <<>>)>>
                   \o ConsensusOps(Append(basepath, "leaf"), Some(json_dumps(v)),
                                   acl, "tree", Append(at, k))
                   \o (IF acl # <<>>
                       THEN <<Op("set_acls", Append(basepath, "leaf"), <<>>, acl,
                                 "", <<>>)>>
                       ELSE <<>>))
             \o CreateSecretsOpsOnePath(basepath, tree, acl, Tail(keys), at)

\* _create_secrets(basepath, secrets, acl): the commands of the loop over
\* secrets.items(); `at` is the key path of this level in the caller's tree.
RECURSIVE CreateSecretsOps(_, _, _, _, _)
CreateSecretsOps(basepath, tree, acl, keys, at) ==
    IF keys = <<>> THEN <<>>
    ELSE LET k == Head(keys)
             v == tree.kv[k]
             path == Append(basepath, k)
         IN  (IF ~IsLeaf(v)
              THEN CreateSecretsOps(path, v, acl, Items(v), Append(at, k))
              ELSE <<Op("ensure_zk_path", basepath, <<>>, acl, "", <<>>)>>
                   \o ConsensusOps(path, Some(json_dumps(v)), acl,
                                   "tree", Append(at, k))
                   \o (IF acl # <<>>
                       THEN <<Op("set_acls", path, <<>>, acl, "", <<>>)>>
                       ELSE <<>>))
             \o CreateSecretsOps(basepath, tree, acl, Tail(keys), at)

_create_secrets(basepath, tree, acl) ==
    CreateSecretsOps(basepath, tree, acl, Items(tree), <<>>)

\* utils.dict_merge(dct, merge_dct): merge_dct is merged into dct, recursing
\* where both sides hold a dict and taking merge_dct's value elsewhere.
RECURSIVE dict_merge(_, _)
dict_merge(dct, merge_dct) ==
    Dict([k \in DOMAIN dct.kv \cup DOMAIN merge_dct.kv |->
            IF k \notin DOMAIN merge_dct.kv THEN dct.kv[k]
            ELSE IF k \in DOMAIN dct.kv /\ dct.kv[k].isdict /\ merge_dct.kv[k].isdict
                 THEN dict_merge(dct.kv[k], merge_dct.kv[k])
                 ELSE merge_dct.kv[k]])

\* self.secrets.update(secrets): the top-level branches are replaced
UpdateSecrets(old, new) == Dict(new.kv @@ old.kv)

\* create_master_secrets / create_agent_secrets:
\* utils.dict_merge(self.secrets, secrets)
MergeIntoSecrets(old, new) == dict_merge(old, new)

\* init_zk_acls: the table `paths`, walked in sorted order
InitZkAclPaths ==
    << [path |-> <<>>, acl |-> ANYONE_CR \o LOCALHOST_ALL],
       [path |-> <<"cosmos">>, acl |-> ANYONE_ALL],
       [path |-> <<"dcos">>, acl |-> ANYONE_READ],
       [path |-> <<"dcos", "vault">>, acl |-> ANYONE_READ],
       [path |-> <<"zookeeper">>, acl |-> ANYONE_READ],
       [path |-> <<"zookeeper", "quotas">>, acl |-> ANYONE_READ] >>

\* The per-service ACL functions: the account whose credential is used, the
\* service-owned path, and the entries put before the service's digest entry.
ServiceAclFns ==
    [ mesos_zk_acls |->
          [service |-> "dcos_mesos_master", path |-> <<"mesos">>,
           fixed |-> ANYONE_READ \o LOCALHOST_ALL],
      marathon_zk_acls |->
          [service |-> "dcos_marathon", path |-> <<"marathon">>,
           fixed |-> ANYONE_READ \o LOCALHOST_ALL],
      metronome_zk_acls |->
          [service |-> "dcos_metronome", path |-> <<"metronome">>,
           fixed |-> ANYONE_READ \o LOCALHOST_ALL],
      cosmos_acls |->
          [service |-> "dcos_cosmos", path |-> <<"cosmos">>,
           fixed |-> ANYONE_READ \o LOCALHOST_ALL],
      bouncer_acls |->
          [service |-> "dcos_bouncer", path |-> <<"bouncer">>,
           fixed |-> LOCALHOST_ALL],
      dcos_ca_acls |->
          [service |-> "dcos_ca", path |-> <<"dcos", "ca">>,
           fixed |-> LOCALHOST_ALL],
      dcos_secrets_acls |->
          [service |-> "dcos_secrets", path |-> <<"dcos", "secrets">>,
           fixed |-> LOCALHOST_ALL],
      dcos_vault_default_acls |->
          [service |-> "dcos_vault_default", path |-> <<"dcos", "vault", "default">>,
           fixed |-> LOCALHOST_ALL] ]

\* make_service_acl(service, all=True) on the secrets of a run
make_service_acl(sec, service) ==
    make_digest_acl(sec.kv["zk"].kv[service].kv["username"].s,
                    sec.kv["zk"].kv[service].kv["password"].s, PermAll)

\* the acl a per-service ACL function computes
ServiceAcl(o, sec, fn) ==
    IF o.zk_acls_enabled
    THEN ServiceAclFns[fn].fixed \o <<make_service_acl(sec, ServiceAclFns[fn].service)>>
    ELSE <<>>

----------------------------------------------------------------------------
(* Role workflows (the `bootstrappers` table), as the calls they make on   *)
(* the Bootstrapper that reach the coordination store.                     *)

Call(fn, readonly) == [fn |-> fn, readonly |-> readonly]

Workflows ==
    [ dcos_cosmos |->
          <<Call("init_zk_acls", FALSE), Call("create_master_secrets", FALSE),
            Call("cosmos_acls", FALSE), Call("write_CA_certificate", FALSE)>>,
      dcos_adminrouter |->
          <<Call("init_zk_acls", FALSE), Call("create_master_secrets", FALSE),
            Call("cluster_id", FALSE)>>,
      dcos_3dt_master |->
          <<Call("init_zk_acls", FALSE), Call("create_master_secrets", FALSE),
            Call("create_agent_secrets", FALSE)>>,
      dcos_mesos_slave |->
          <<Call("read_agent_secrets", FALSE), Call("write_CA_certificate", FALSE)>>,
      dcos_metrics_agent |->
          <<Call("read_agent_secrets", FALSE), Call("cluster_id", TRUE)>>,
      dcos_3dt_agent |-> <<Call("read_3dt_agent_secrets", FALSE)>>,
      dcos_log_agent |-> <<Call("read_dcos_log_secrets", FALSE)>> ]

WorkflowNames == DOMAIN Workflows

\* The runs are interchangeable: only assignments of workflows to runs that
\* are sorted in this order are started.
WorkflowOrder ==
    << "dcos_cosmos", "dcos_adminrouter", "dcos_3dt_master", "dcos_mesos_slave",
       "dcos_metrics_agent", "dcos_3dt_agent", "dcos_log_agent" >>

Rank(w) == CHOOSE i \in DOMAIN WorkflowOrder : WorkflowOrder[i] = w

----------------------------------------------------------------------------
(* The coordination store (kazoo client against ZooKeeper) *)

\* `by` is the run whose create made the node (0: made by ensure_path),
\* `creates` the number of creates the store has applied at the path.
Node(value, acl, by) ==
    [value |-> value, acl |-> acl, by |-> by, creates |-> IF by = 0 THEN 0 ELSE 1]

Parent(path) == SubSeq(path, 1, Len(path) - 1)

Prefixes(path) == {SubSeq(path, 1, n) : n \in 1..Len(path)}

\* KazooClient.ensure_path(path, acl): every missing node of the path is
\* created empty with the acl; existing nodes are left alone.
ensure_path(store, path, acl) ==
    [q \in DOMAIN store \cup Prefixes(path) |->
        IF q \in DOMAIN store THEN store[q] ELSE Node(<<>>, acl, 0)]

\* KazooClient.set_acls(path, acl)
set_acls(store, path, acl) == [store EXCEPT ![path].acl = acl]

\* Bootstrapper.ensure_zk_path(path, acl)
ensure_zk_path(store, path, acl) ==
    IF acl # <<>> THEN set_acls(ensure_path(store, path, acl), path, acl)
    ELSE ensure_path(store, path, acl)

\* KazooClient.create(path, value, acl) on a path that does not exist yet
create(store, path, value, acl, p) ==
    (path :> Node(value, acl, p)) @@ store

\* a create that replaces whatever the path holds
create_or_replace(store, path, value, acl, p) ==
    IF path \in DOMAIN store
    THEN [store EXCEPT ![path] = [Node(value, acl, p) EXCEPT !.creates = store[path].creates + 1]]
    ELSE create(store, path, value, acl, p)

\* the create of _consensus: NodeExistsError is swallowed, the store keeps
\* what it holds
consensus_create(store, path, value, acl, p) ==
    IF path \in DOMAIN store THEN store ELSE create(store, path, value, acl, p)

----------------------------------------------------------------------------
(* Calls on the Bootstrapper: the commands a call sends, the tree it       *)
(* works on and the value it proposes.                                     *)

Setup(fn, ops, tree, proposed) ==
    [fn |-> fn, ops |-> ops, tree |-> tree, proposed |-> proposed]

ClusterIdCall(readonly, p) ==
    LET zkid == IF readonly THEN None ELSE Some(encode("uuid" \o Nonce(p)))
    IN  Setup("cluster_id",
              ConsensusOps(ClusterIdPath, zkid, ANYONE_READ, "val", <<>>),
              EmptyDict, zkid)

InitZkAclsCall(o) ==
    Setup("init_zk_acls",
          IF ~o.zk_acls_enabled THEN <<>>
          ELSE [i \in DOMAIN InitZkAclPaths |->
                   Op("ensure_zk_path", InitZkAclPaths[i].path, <<>>,
                      InitZkAclPaths[i].acl, "", <<>>)],
          EmptyDict, None)

CreateMasterSecretsCall(o, p) ==
    Setup("create_master_secrets",
          _create_secrets(MasterSecretsPath, MasterSecrets(o, p),
                          MasterSecretsAcl(o)),
          MasterSecrets(o, p), None)

CreateAgentSecretsCall(o, p) ==
    Setup("create_agent_secrets",
          _create_secrets(AgentSecretsPath, AgentSecrets(p), AgentSecretsAcl(o)),
          AgentSecrets(p), None)

AgentSecretPath(svc) == AgentSecretsPath \o <<"services", svc>>

RECURSIVE ReadAgentOps(_)
ReadAgentOps(svcs) ==
    IF svcs = <<>> THEN <<>>
    ELSE ConsensusOps(AgentSecretPath(Head(svcs)), None, <<>>,
                      "secrets", <<"services", Head(svcs)>>)
         \o ReadAgentOps(Tail(svcs))

ReadAgentSecretsCall ==
    Setup("read_agent_secrets", ReadAgentOps(agent_services), EmptyDict, None)

Read3dtAgentSecretsCall ==
    Setup("read_3dt_agent_secrets",
          ConsensusOps(AgentSecretPath("dcos_3dt_agent"), None, <<>>,
                       "services", <<"dcos_3dt_agent">>),
          EmptyDict, None)

ReadDcosLogSecretsCall ==
    Setup("read_dcos_log_secrets",
          ConsensusOps(AgentSecretPath("dcos_log_agent"), None, <<>>,
                       "services", <<"dcos_log_agent">>),
          EmptyDict, None)

\* a write_CA_certificate that proposes a certificate made for the occasion
WriteCACertificateCallFresh(sec) ==
    LET crt == IF "CA" \in DOMAIN sec.kv
               THEN Some(encode("cacrt" \o "fresh"))
               ELSE None
    IN  Setup("write_CA_certificate",
              ConsensusOps(RootCAPath, crt, ANYONE_READ, "val", <<>>),
              EmptyDict, crt)

WriteCACertificateCall(sec) ==
    LET crt == IF "CA" \in DOMAIN sec.kv
               THEN Some(encode(sec.kv["CA"].kv["RootCA"].kv["certificate"].s))
               ELSE None
    IN  Setup("write_CA_certificate",
              ConsensusOps(RootCAPath, crt, ANYONE_READ, "val", <<>>),
              EmptyDict, crt)

\* mesos_zk_acls, marathon_zk_acls, metronome_zk_acls, cosmos_acls,
\* bouncer_acls, dcos_ca_acls, dcos_secrets_acls, dcos_vault_default_acls
ServiceAclsCall(o, sec, fn) ==
    Setup(fn,
          <<Op("ensure_zk_path", ServiceAclFns[fn].path, <<>>,
               ServiceAcl(o, sec, fn), "", <<>>)>>,
          EmptyDict, None)

\* read_agent_secrets starts with self.secrets['services'] = {}
SecretsAtCall(call, sec) ==
    IF call.fn = "read_agent_secrets"
    THEN Dict(("services" :> EmptyDict) @@ sec.kv)
    ELSE sec

\* the locals of a call that has sent nothing yet
FrameAtCall(store, call, su) ==
    [fn |-> su.fn, readonly |-> call.readonly, ops |-> su.ops, tree |-> su.tree,
     val |-> <<>>, proposed |-> su.proposed, attempts |-> 0, ret |-> EmptyDict,
     rerun |-> /\ \E i \in DOMAIN su.ops : su.ops[i].op = "create"
               /\ \A i \in DOMAIN su.ops :
                     su.ops[i].op = "create" => su.ops[i].path \in DOMAIN store]

\* a caller of _consensus that keeps the value it proposed
AssignedKeepingOwn(f, sec, c, val) == <<[f EXCEPT !.val = val], sec>>

\* what the caller of _consensus does with the bytes it got
Assigned(f, sec, c, val) ==
    CASE c.assign = "tree" ->
             <<[f EXCEPT !.val = val,
                         !.tree = TreeSet(f.tree, c.dst, json_loads(val))], sec>>
      [] c.assign = "secrets" ->
             <<[f EXCEPT !.val = val], TreeSet(sec, c.dst, json_loads(val))>>
      [] c.assign = "services" ->
             <<[f EXCEPT !.val = val],
               TreeSet(sec, <<"services">>, Dict(c.dst[1] :> json_loads(val)))>>
      [] OTHER -> <<[f EXCEPT !.val = val], sec>>

\* the locals, the secrets and the history of a run when a call returns
FrameAtReturn(f, sec) ==
    CASE f.fn \in {"create_master_secrets", "create_agent_secrets"} ->
             [f EXCEPT !.ret = f.tree]
      [] f.fn \in {"read_agent_secrets", "read_3dt_agent_secrets",
                   "read_dcos_log_secrets"} ->
             [f EXCEPT !.ret = sec]
      [] f.fn = "cluster_id" -> [f EXCEPT !.ret = Str(decode(f.val))]
      [] OTHER -> f

SecretsAtReturn(f, sec) ==
    IF f.fn \in {"create_master_secrets", "create_agent_secrets"}
    THEN MergeIntoSecrets(sec, f.tree)
    ELSE sec

HistAtReturn(f, sec, h) ==
    [h EXCEPT !.rets = @ \cup {<<f.fn, FrameAtReturn(f, sec).ret>>}]

----------------------------------------------------------------------------
(* The runs.  Runs 1..NumProcs start together.  They find either the empty *)
(* store of a new cluster or the store left by an earlier boot, in which   *)
(* run Earlier went through the master workflows one after the other, to   *)
(* completion, before any of them started.                                 *)

Earlier == NumProcs + 1

Runs == Procs \cup {Earlier}

EarlierWorkflows == <<"dcos_cosmos", "dcos_adminrouter", "dcos_3dt_master">>

NoFrame ==
    [fn |-> "", readonly |-> FALSE, ops |-> <<>>, tree |-> EmptyDict,
     val |-> <<>>, proposed |-> None, attempts |-> 0, ret |-> EmptyDict,
     rerun |-> FALSE]

NoHist == [proposals |-> {}, got |-> {}, rets |-> {}]

EmptyStore == (<<>> :> Node(<<>>, <<>>, 0))

Init ==
    /\ opts \in {ParseArgs(m) : m \in Modes}
    /\ zk = EmptyStore
    /\ earlier \in {<<>>, EarlierWorkflows}
    /\ view = [p \in Runs |-> DOMAIN zk]
    /\ wf \in {w \in [Runs -> WorkflowNames] :
                  /\ w[Earlier] = EarlierWorkflows[1]
                  /\ \A p, q \in Procs : p < q => Rank(w[p]) <= Rank(w[q])}
    /\ pos = [p \in Runs |-> 0]
    /\ pc = [p \in Runs |-> IF p = Earlier THEN "done" ELSE "idle"]
    /\ frame = [p \in Runs |-> NoFrame]
    /\ secrets = [p \in Runs |-> EmptyDict]
    /\ hist = [p \in Runs |-> NoHist]
    /\ boots = [p \in Runs |-> 0]
    /\ NoHost /\ NoOthers

\* the earlier boot starts its next workflow, with a Bootstrapper of its own
StartWorkflow ==
    /\ earlier # <<>>
    /\ pc[Earlier] = "done"
    /\ earlier' = Tail(earlier)
    /\ wf' = [wf EXCEPT ![Earlier] = Head(earlier)]
    /\ pos' = [pos EXCEPT ![Earlier] = 0]
    /\ pc' = [pc EXCEPT ![Earlier] = "idle"]
    /\ frame' = [frame EXCEPT ![Earlier] = NoFrame]
    /\ secrets' = [secrets EXCEPT ![Earlier] = EmptyDict]
    /\ UNCHANGED <<opts, zk, view, hist, boots, hostvars, others>>

\* the replicas after run p has written: the replica serving p holds the
\* write; a write of the earlier boot has reached every replica by the time
\* the other runs start
Seen(p, store) ==
    IF p = Earlier THEN [q \in Runs |-> DOMAIN store]
    ELSE [view EXCEPT ![p] = DOMAIN store]

\* every Bootstrapper draws random material of its own (uuid.uuid4,
\* utils.random_string, generated keys): the workflows of the earlier boot
\* draw from different seeds, and none of them from the seed of a later run;
\* a workflow invoked again draws from a seed not drawn from before
Seed(p) ==
    IF p = Earlier THEN Earlier + Len(earlier)
    ELSE p + boots[p] * (Earlier + Len(EarlierWorkflows))

NextCall(p) == Workflows[wf[p]][pos[p] + 1]

CanCall(p, fn) ==
    /\ p \in Procs => earlier = <<>> /\ pc[Earlier] = "done"
    /\ pc[p] = "idle"
    /\ pos[p] < Len(Workflows[wf[p]])
    /\ NextCall(p).fn = fn

\* what a call leaves behind when its last command has been answered
Returned(p, f, sec, h) ==
    /\ pc' = [pc EXCEPT ![p] =
                IF pos'[p] = Len(Workflows[wf[p]]) THEN "done" ELSE "idle"]
    /\ frame' = [frame EXCEPT ![p] = FrameAtReturn(f, sec)]
    /\ secrets' = [secrets EXCEPT ![p] = SecretsAtReturn(f, sec)]
    /\ hist' = [hist EXCEPT ![p] = HistAtReturn(f, sec, h)]

\* a call begins: its locals are set up and its commands are still to be sent
Begin(p, su) ==
    LET sec == SecretsAtCall(NextCall(p), secrets[p])
        f == FrameAtCall(zk, NextCall(p), su)
    IN  /\ pos' = [pos EXCEPT ![p] = @ + 1]
        /\ IF f.ops = <<>>
           THEN Returned(p, f, sec, hist[p])
           ELSE /\ pc' = [pc EXCEPT ![p] = "run"]
                /\ frame' = [frame EXCEPT ![p] = f]
                /\ secrets' = [secrets EXCEPT ![p] = sec]
                /\ hist' = hist
        /\ UNCHANGED <<opts, zk, view, wf, earlier, boots, hostvars, others>>

\* a command of the call in progress has been answered
Answered(p, f, sec, h) ==
    /\ UNCHANGED <<opts, wf, pos, earlier, boots, hostvars, others>>
    /\ IF f.ops = <<>>
       THEN Returned(p, f, sec, h)
       ELSE /\ pc' = pc
            /\ frame' = [frame EXCEPT ![p] = f]
            /\ secrets' = [secrets EXCEPT ![p] = sec]
            /\ hist' = [hist EXCEPT ![p] = h]

\* an exception leaves the call: the run aborts
Raised(p) ==
    /\ pc' = [pc EXCEPT ![p] = "failed"]
    /\ UNCHANGED <<opts, zk, view, wf, pos, frame, secrets, hist, earlier, boots,
                   hostvars, others>>

Cmd(p) == Head(frame[p].ops)

Sending(p, op) == pc[p] = "run" /\ Cmd(p).op = op

Popped(p) == [frame[p] EXCEPT !.ops = Tail(@)]

cluster_id(p) ==
    /\ CanCall(p, "cluster_id")
    /\ Begin(p, ClusterIdCall(NextCall(p).readonly, Seed(p)))

init_zk_acls(p) ==
    /\ CanCall(p, "init_zk_acls")
    /\ Begin(p, InitZkAclsCall(opts))

create_master_secrets(p) ==
    /\ CanCall(p, "create_master_secrets")
    /\ Begin(p, CreateMasterSecretsCall(opts, Seed(p)))

create_agent_secrets(p) ==
    /\ CanCall(p, "create_agent_secrets")
    /\ Begin(p, CreateAgentSecretsCall(opts, Seed(p)))

read_agent_secrets(p) ==
    /\ CanCall(p, "read_agent_secrets")
    /\ Begin(p, ReadAgentSecretsCall)

read_3dt_agent_secrets(p) ==
    /\ CanCall(p, "read_3dt_agent_secrets")
    /\ Begin(p, Read3dtAgentSecretsCall)

read_dcos_log_secrets(p) ==
    /\ CanCall(p, "read_dcos_log_secrets")
    /\ Begin(p, ReadDcosLogSecretsCall)

write_CA_certificate(p) ==
    /\ CanCall(p, "write_CA_certificate")
    /\ Begin(p, WriteCACertificateCall(secrets[p]))

service_acls(p) ==
    \E fn \in DOMAIN ServiceAclFns :
        /\ CanCall(p, fn)
        /\ Begin(p, ServiceAclsCall(opts, secrets[p], fn))

(* Commands answered by the store *)

\* a create that lets NodeExistsError escape from _consensus
ZkCreateRaising(p) ==
    /\ Sending(p, "create")
    /\ LET c == Cmd(p) IN
       IF Parent(c.path) \notin DOMAIN zk \/ c.path \in DOMAIN zk
       THEN Raised(p)
       ELSE /\ zk' = create(zk, c.path, c.value, c.acl, p)
            /\ view' = Seen(p, zk')
            /\ Answered(p, [Popped(p) EXCEPT !.attempts = @ + 1], secrets[p],
                        [hist[p] EXCEPT !.proposals = @ \cup {<<c.path, c.value>>}])

\* self.zk.create(path, value, acl=acl) inside _consensus; NodeExistsError
\* is swallowed there, a missing parent raises NoNodeError.
ZkCreate(p) ==
    /\ Sending(p, "create")
    /\ LET c == Cmd(p) IN
       IF Parent(c.path) \notin DOMAIN zk
       THEN Raised(p)
       ELSE /\ zk' = consensus_create(zk, c.path, c.value, c.acl, p)
            /\ view' = Seen(p, zk')
            /\ Answered(p, [Popped(p) EXCEPT !.attempts = @ + 1], secrets[p],
                        [hist[p] EXCEPT !.proposals = @ \cup {<<c.path, c.value>>}])

\* self.zk.sync(path): the replica serving the run catches up
ZkSync(p) ==
    /\ Sending(p, "sync")
    /\ view' = Seen(p, zk)
    /\ zk' = zk
    /\ Answered(p, Popped(p), secrets[p], hist[p])

\* self.zk.get(path)[0], answered with the node's value
GetOk(p) ==
    /\ Sending(p, "get")
    /\ Cmd(p).path \in DOMAIN zk
    /\ LET r == Assigned(Popped(p), secrets[p], Cmd(p), zk[Cmd(p).path].value)
       IN  /\ UNCHANGED <<zk, view>>
           /\ Answered(p, r[1], r[2],
                       [hist[p] EXCEPT !.got = @ \cup {<<Cmd(p).path, r[1].val>>}])

\* a get that answers a path the replica does not hold with an empty value
GetNoNodeEmpty(p) ==
    /\ Sending(p, "get")
    /\ Cmd(p).path \notin view[p]
    /\ LET r == Assigned(Popped(p), secrets[p], Cmd(p), <<"{", "}">>)
       IN  /\ UNCHANGED <<zk, view>>
           /\ Answered(p, r[1], r[2], hist[p])

\* self.zk.get(path), answered NoNodeError: the replica serving the run is
\* not known to hold the path
GetNoNode(p) ==
    /\ Sending(p, "get")
    /\ Cmd(p).path \notin view[p]
    /\ Raised(p)

ZkGet(p) == GetOk(p) \/ GetNoNode(p)

\* ensure_zk_path(path, acl)
ZkEnsureZkPath(p) ==
    /\ Sending(p, "ensure_zk_path")
    /\ zk' = ensure_zk_path(zk, Cmd(p).path, Cmd(p).acl)
    /\ view' = Seen(p, zk')
    /\ Answered(p, Popped(p), secrets[p], hist[p])

\* self.zk.set_acls(path, acl) at the end of a leaf of _create_secrets
ZkSetAcls(p) ==
    /\ Sending(p, "set_acls")
    /\ zk' = set_acls(zk, Cmd(p).path, Cmd(p).acl)
    /\ view' = Seen(p, zk')
    /\ Answered(p, Popped(p), secrets[p], hist[p])

\* a step of run p
Step(p) ==
        \/ cluster_id(p)
        \/ init_zk_acls(p)
        \/ create_master_secrets(p)
        \/ create_agent_secrets(p)
        \/ read_agent_secrets(p)
        \/ read_3dt_agent_secrets(p)
        \/ read_dcos_log_secrets(p)
        \/ write_CA_certificate(p)
        \/ service_acls(p)
        \/ ZkCreate(p)
        \/ ZkSync(p)
        \/ ZkGet(p)
        \/ ZkEnsureZkPath(p)
        \/ ZkSetAcls(p)

Next ==
    \/ StartWorkflow
    \/ \E p \in Runs : Step(p)

Spec == Init /\ [][Next]_vars

\* the store applies the create of a run, and the answer does not reach the
\* run: the connection is lost, and the client has the same command to send
\* again
ZkCreateLost(p) ==
    /\ Sending(p, "create")
    /\ LET c == Cmd(p) IN
       /\ Parent(c.path) \in DOMAIN zk
       /\ c.path \notin DOMAIN zk
       /\ zk' = create(zk, c.path, c.value, c.acl, p)
       /\ frame' = [frame EXCEPT ![p].attempts = @ + 1]
       /\ hist' = [hist EXCEPT ![p].proposals = @ \cup {<<c.path, c.value>>}]
    /\ UNCHANGED <<opts, view, wf, pos, pc, secrets, earlier, boots, hostvars,
                   others>>

\* The clusters in which answers get lost, all without an earlier boot:
\* those with security disabled, whatever the workflows of the runs, and
\* those with security strict in which at most one of the two runs is a
\* master.
LostInit ==
    /\ Init
    /\ earlier = <<>>
    /\ \/ opts.security = "disabled"
       \/ /\ opts.security = "strict"
          /\ \E p \in Procs : wf[p] \notin {"dcos_cosmos", "dcos_adminrouter",
                                             "dcos_3dt_master"}

LostNext ==
    \E p \in Procs :
        \/ Step(p)
        \/ ZkCreateLost(p)

\* the cluster, with answers to a create that get lost
LostSpec == LostInit /\ [][LostNext]_vars

-----------------------------------------------------------------------------
(* Workflows that abort and are invoked again.  The orchestration starts   *)
(* the workflow of a node again, from its first call, with a Bootstrapper  *)
(* of its own: nothing of the aborted run is kept but what it has stored.  *)

\* the times workflows are invoked again, over all runs
MaxRestarts == 1

RECURSIVE BootsUpTo(_)
BootsUpTo(n) == IF n = 0 THEN 0 ELSE boots[n] + BootsUpTo(n - 1)

Restarts == BootsUpTo(NumProcs)

\* The run has aborted after any of its steps, by an exception of its own
\* or ended from outside, and the orchestration invokes its workflow again
\* from the beginning, in a new process.  (What the other runs do while the run is down, they do here
\* before the first call of the workflow invoked again.)
Restart(p) ==
    /\ pc[p] \in {"idle", "run", "failed"}
    /\ pos[p] > 0
    /\ Restarts < MaxRestarts
    /\ boots' = [boots EXCEPT ![p] = @ + 1]
    /\ pos' = [pos EXCEPT ![p] = 0]
    /\ pc' = [pc EXCEPT ![p] = "idle"]
    /\ frame' = [frame EXCEPT ![p] = NoFrame]
    /\ secrets' = [secrets EXCEPT ![p] = EmptyDict]
    /\ UNCHANGED <<opts, zk, view, wf, hist, earlier, hostvars, others>>

\* The clusters in which workflows are invoked again: those with security
\* disabled, whatever the workflows of the runs, and those with security
\* strict in which at most one of the two runs is a master.
RestartModes == {"disabled"}

RestartInit ==
    /\ Init
    /\ earlier = <<>>
    /\ \/ opts.security \in RestartModes
       \/ /\ opts.security = "strict"
          /\ \E p \in Procs : wf[p] \notin Range(EarlierWorkflows)

RestartNext ==
    \E p \in Procs :
        \/ Step(p)
        \/ Restart(p)

RestartSpec == RestartInit /\ [][RestartNext]_vars

----------------------------------------------------------------------------
(* One host.  The processes of a host share its files and its directory    *)
(* locks.  Each makes one call, cluster_id or ensure_key_certificate, and  *)
(* the processes interleave at the granularity of one system call, one     *)
(* store command or one HTTP call.                                         *)
(*   file   <<directory, name>>                                            *)
(*   text   a sequence of lines; a marker is in a text if it is a line     *)
(*   mode   the permission bits, written as in the source without '0o'     *)

\* number of processes of the host
NumHostProcs == 2

HostProcs == 1..NumHostProcs

dirname(file) == file[1]

ClusterIdFile == <<"/var/lib/dcos", "cluster-id">>
KeyFile == <<"/run/dcos/pki/tls/private", "service.key">>
CrtFile == <<"/run/dcos/pki/tls/certs", "service.crt">>

Dirs == {dirname(ClusterIdFile), dirname(KeyFile), dirname(CrtFile)}

File(data, mode) == [data |-> data, mode |-> mode]

\* 'marker' in text
Contains(text, marker) == marker \in Range(text)

\* a check that looks at the certificate only
_key_cert_is_valid_crt_only(files, key_filename, crt_filename) ==
    /\ crt_filename \in DOMAIN files
    /\ Contains(files[crt_filename].data, "BEGIN CERTIFICATE")

\* Bootstrapper._key_cert_is_valid(key_filename, crt_filename)
_key_cert_is_valid(files, key_filename, crt_filename) ==
    IF crt_filename \notin DOMAIN files THEN FALSE
    ELSE IF ~Contains(files[crt_filename].data, "BEGIN CERTIFICATE") THEN FALSE
    ELSE IF key_filename \notin DOMAIN files THEN FALSE
    ELSE IF ~Contains(files[key_filename].data, "PRIVATE KEY") THEN FALSE
    ELSE TRUE

\* os.open(path, O_WRONLY | O_CREAT | O_TRUNC, mode) under umask 0: a missing
\* file is created with the mode, an existing file is truncated and keeps
\* the mode it has
open_trunc(files, file, mode) ==
    IF file \in DOMAIN files
    THEN [files EXCEPT ![file].data = <<>>]
    ELSE (file :> File(<<>>, mode)) @@ files

\* f.write(data)
write(files, file, data) == [files EXCEPT ![file].data = data]

\* os.rename(src, dst)
rename(files, src, dst) ==
    [f \in (DOMAIN files \ {src}) \cup {dst} |->
        IF f = dst THEN files[src] ELSE files[f]]

\* utils.read_file_line(path): the first line, without its newline
read_file_line(files, file) == files[file].data[1]

\* the steps of a call on the host
HOp(op, file, data, mode) == [op |-> op, file |-> file, data |-> data, mode |-> mode]

\* _write_file(path, data, mode)
WriteFileOps(file, data, mode) ==
    << HOp("lock", file, <<>>, ""),
       HOp("open", file, <<>>, mode),
       HOp("write", file, data, ""),
       HOp("unlock", file, <<>>, "") >>


\* cluster_id: tmppath = path + '.tmp'
TmpFile(file) == <<file[1], file[2] \o ".tmp">>

\* the calls a process of the host can make
ClusterIdHostCall(readonly) ==
    [fn |-> "cluster_id", readonly |-> readonly, service_account |-> "",
     key_mode |-> ""]

EnsureKeyCertificateCall(service_account, key_mode) ==
    [fn |-> "ensure_key_certificate", readonly |-> FALSE,
     service_account |-> service_account, key_mode |-> key_mode]

\* the call sites of ensure_key_certificate: service_account is None or
\* 'dcos_agent'; key_mode is 0o600 by default and 0o644 for the key of the
\* Mesos schedulers, which is asked for with the service account
HostCalls ==
    {ClusterIdHostCall(r) : r \in BOOLEAN}
    \cup {EnsureKeyCertificateCall("", "600"),
          EnsureKeyCertificateCall("dcos_agent", "600"),
          EnsureKeyCertificateCall("dcos_agent", "644")}

HostCallOrder(c) ==
    (IF c.fn = "cluster_id" THEN 0 ELSE 4) + (IF c.readonly THEN 1 ELSE 0)
    + (IF c.service_account = "" THEN 0 ELSE 2) + (IF c.key_mode = "644" THEN 1 ELSE 0)

\* a cluster_id that does not take the lock
ClusterIdHostOpsUnlocked(readonly, p) ==
    ClusterIdCall(readonly, p).ops \o <<HOp("compare", ClusterIdFile, <<>>, "")>>

\* cluster_id(path, readonly) up to the comparison with the file: the lock
\* on the directory of the file is taken, then _consensus is called
ClusterIdHostOps(readonly, p) ==
    <<HOp("lock", ClusterIdFile, <<>>, "")>>
    \o ClusterIdCall(readonly, p).ops
    \o <<HOp("compare", ClusterIdFile, <<>>, "")>>

\* a cluster_id that leaves alone the file it finds
ClusterIdFileOpsKeepingFile(files, file, zkid) ==
    (IF file \in DOMAIN files
     THEN <<>>
     ELSE << HOp("open", TmpFile(file), <<>>, "umask"),
             HOp("write", TmpFile(file), <<zkid, "\n">>, ""),
             HOp("rename", TmpFile(file), file, "") >>)
    \o <<HOp("unlock", file, <<>>, "")>>

\* cluster_id after the comparison: nothing is written if the file holds
\* the id, else the id is written to the temp file, which is renamed
ClusterIdFileOps(files, file, zkid) ==
    (IF file \in DOMAIN files /\ read_file_line(files, file) = zkid
     THEN <<>>
     ELSE << HOp("open", TmpFile(file), <<>>, "umask"),
             HOp("write", TmpFile(file), <<zkid, "\n">>, ""),
             HOp("rename", TmpFile(file), file, "") >>)
    \o <<HOp("unlock", file, <<>>, "")>>

\* an issuance that never logs in
IssueOpsWithoutLogin(call) ==
    <<HOp("generate", KeyFile, <<>>, ""), HOp("sign", CrtFile, <<>>, "")>>

\* create_key_certificate up to the signing of the request
IssueOps(call) ==
    <<HOp("generate", KeyFile, <<>>, "")>>
    \o (IF call.service_account # ""
        THEN <<HOp("login", KeyFile, <<>>, "")>> ELSE <<>>)
    \o <<HOp("sign", CrtFile, <<>>, "")>>

\* a create_key_certificate that writes the certificate before the key
WriteKeyCertificateOpsCrtFirst(call, privkey_pem, crt) ==
    WriteFileOps(CrtFile, crt, "644")
    \o WriteFileOps(KeyFile, privkey_pem, call.key_mode)

\* create_key_certificate after the signing: the key, then the certificate
WriteKeyCertificateOps(call, privkey_pem, crt) ==
    WriteFileOps(KeyFile, privkey_pem, call.key_mode)
    \o WriteFileOps(CrtFile, crt, "644")

NoLocals ==
    [call |-> ClusterIdHostCall(FALSE), ops |-> <<>>, val |-> <<>>, zkid |-> "",
     cert |-> "Unchecked", privkey_pem |-> <<>>, csr_pem |-> <<>>,
     token |-> "", crt |-> <<>>, opened |-> <<>>, wrote |-> <<>>]

\* another node of the cluster, which may have stored the cluster id
OtherNode == NumHostProcs + 1

HostFiles ==
    LET choices(file, contents) ==
            {<<>>} \cup {(file :> File(c[1], c[2])) : c \in contents}
    IN  {a @@ b @@ c :
            a \in choices(ClusterIdFile,
                          {<<<<"uuid0", "\n">>, "644">>, <<<<"stale", "\n">>, "644">>}),
            b \in choices(KeyFile,
                          {<<<<"PRIVATE KEY", "key0">>, "600">>,
                           <<<<"garbage">>, "600">>, <<<<"garbage">>, "644">>}),
            c \in choices(CrtFile,
                          {<<<<"BEGIN CERTIFICATE", "crt0">>, "644">>,
                           <<<<"garbage">>, "644">>})}

HostInit ==
    /\ opts = ParseArgs("strict")
    /\ view = <<>> /\ wf = <<>> /\ pos = <<>> /\ pc = <<>> /\ frame = <<>>
    /\ secrets = <<>> /\ hist = <<>> /\ earlier = <<>> /\ boots = <<>>
    /\ NoOthers
    /\ zk \in {EmptyStore,
               create(EmptyStore, ClusterIdPath, encode("uuid0"), ANYONE_READ,
                      OtherNode)}
    /\ fs \in HostFiles
    /\ lock = [d \in Dirs |-> {}]
    /\ net = <<>>
    /\ hpc = [p \in HostProcs |-> "ready"]
    /\ hloc \in {l \in [HostProcs -> {[NoLocals EXCEPT !.call = c] : c \in HostCalls}] :
                    \A p, q \in HostProcs :
                        p < q => HostCallOrder(l[p].call) <= HostCallOrder(l[q].call)}

HCmd(p) == Head(hloc[p].ops)

Doing(p, op) == hpc[p] = "run" /\ HCmd(p).op = op

\* the locals of p with the step at the head taken off
Stepped(p) == [hloc[p] EXCEPT !.ops = Tail(@)]

\* the step is done: the call goes on with locals l, or returns
Continue(p, l) ==
    /\ hloc' = [hloc EXCEPT ![p] =
                  IF l.ops = <<>> /\ l.cert = "Invalid"
                  THEN [l EXCEPT !.cert = "Issued"] ELSE l]
    /\ hpc' = [hpc EXCEPT ![p] = IF l.ops = <<>> THEN "done" ELSE "run"]

\* an exception that leaves the call with the locks still held
FailsHoldingLock(p) ==
    /\ hpc' = [hpc EXCEPT ![p] = "failed"]
    /\ lock' = lock
    /\ hloc' = hloc

\* an exception leaves the call: the process ends, the `with` blocks it is
\* in release the lock they hold
Fails(p) ==
    /\ hpc' = [hpc EXCEPT ![p] = "failed"]
    /\ lock' = [d \in Dirs |-> lock[d] \ {p}]
    /\ hloc' = hloc

\* the process makes its call
HostBegin(p) ==
    /\ hpc[p] = "ready"
    /\ LET c == hloc[p].call
           ops == IF c.fn = "cluster_id" THEN ClusterIdHostOps(c.readonly, p)
                  ELSE <<HOp("check", CrtFile, <<>>, "")>>
       IN  Continue(p, [hloc[p] EXCEPT !.ops = ops])
    /\ UNCHANGED <<zk, fs, lock, net, runvars, others>>

\* utils.Directory.lock: an exclusive advisory lock on the directory, which
\* is granted when no process holds it
CanLock(dir) == lock[dir] = {}

\* with utils.Directory(dirpath) as d: with d.lock(): the process waits
\* until the lock on the directory is free
LockDir(p) ==
    /\ Doing(p, "lock")
    /\ CanLock(dirname(HCmd(p).file))
    /\ lock' = [lock EXCEPT ![dirname(HCmd(p).file)] = @ \cup {p}]
    /\ Continue(p, Stepped(p))
    /\ UNCHANGED <<zk, fs, net, runvars, others>>

\* the end of the `with` blocks
UnlockDir(p) ==
    /\ Doing(p, "unlock")
    /\ lock' = [lock EXCEPT ![dirname(HCmd(p).file)] = @ \ {p}]
    /\ Continue(p, Stepped(p))
    /\ UNCHANGED <<zk, fs, net, runvars, others>>

\* _consensus inside cluster_id: self.zk.create
HostCreate(p) ==
    /\ Doing(p, "create")
    /\ zk' = consensus_create(zk, HCmd(p).path, HCmd(p).value, HCmd(p).acl, p)
    /\ Continue(p, Stepped(p))
    /\ UNCHANGED <<fs, lock, net, runvars, others>>

\* _consensus inside cluster_id: self.zk.sync
HostSync(p) ==
    /\ Doing(p, "sync")
    /\ Continue(p, Stepped(p))
    /\ UNCHANGED <<zk, fs, lock, net, runvars, others>>

\* _consensus inside cluster_id: self.zk.get, then zkid.decode('ascii')
HostGet(p) ==
    /\ Doing(p, "get")
    /\ IF HCmd(p).path \in DOMAIN zk
       THEN /\ Continue(p, [Stepped(p) EXCEPT !.val = zk[HCmd(p).path].value,
                                              !.zkid = decode(zk[HCmd(p).path].value)])
            /\ lock' = lock
       ELSE Fails(p)
    /\ UNCHANGED <<zk, fs, net, runvars, others>>

\* cluster_id: os.path.exists(path) and utils.read_file_line(path) == zkid
CompareFile(p) ==
    /\ Doing(p, "compare")
    /\ Continue(p, [hloc[p] EXCEPT
                      !.ops = ClusterIdFileOps(fs, HCmd(p).file, hloc[p].zkid)])
    /\ UNCHANGED <<zk, fs, lock, net, runvars, others>>

\* open(tmppath, 'w') in cluster_id, os.open(...) in _write_file
OpenFile(p) ==
    /\ Doing(p, "open")
    /\ fs' = open_trunc(fs, HCmd(p).file, HCmd(p).mode)
    /\ Continue(p, [Stepped(p) EXCEPT !.opened = Append(@, HCmd(p).file)])
    /\ UNCHANGED <<zk, lock, net, runvars, others>>

\* f.write(...) and the close at the end of the `with open`
WriteFile(p) ==
    /\ Doing(p, "write")
    /\ fs' = write(fs, HCmd(p).file, HCmd(p).data)
    /\ Continue(p, [Stepped(p) EXCEPT
                      !.wrote = Append(@, <<HCmd(p).file, HCmd(p).data>>)])
    /\ UNCHANGED <<zk, lock, net, runvars, others>>

\* os.rename(tmppath, path)
RenameFile(p) ==
    /\ Doing(p, "rename")
    /\ fs' = rename(fs, HCmd(p).file, HCmd(p).data)
    /\ Continue(p, Stepped(p))
    /\ UNCHANGED <<zk, lock, net, runvars, others>>

\* an ensure_key_certificate that issues a certificate whatever it finds
CheckKeyCertReissuing(p) ==
    /\ Doing(p, "check")
    /\ Continue(p, [hloc[p] EXCEPT
                      !.cert = IF _key_cert_is_valid(fs, KeyFile, CrtFile)
                               THEN "Valid" ELSE "Invalid",
                      !.ops = IssueOps(hloc[p].call)])
    /\ UNCHANGED <<zk, fs, lock, net, runvars, others>>

\* ensure_key_certificate: if not self._key_cert_is_valid(...)
CheckKeyCert(p) ==
    /\ Doing(p, "check")
    /\ IF _key_cert_is_valid(fs, KeyFile, CrtFile)
       THEN Continue(p, [Stepped(p) EXCEPT !.cert = "Valid"])
       ELSE Continue(p, [hloc[p] EXCEPT !.cert = "Invalid",
                                        !.ops = IssueOps(hloc[p].call)])
    /\ UNCHANGED <<zk, fs, lock, net, runvars, others>>

\* an issuance that writes the key as soon as it is generated
GenerateKeyCSRWritingKey(p) ==
    /\ Doing(p, "generate")
    /\ LET privkey_pem == <<"PRIVATE KEY", "key" \o ToString(p)>>
       IN  Continue(p, [hloc[p] EXCEPT
                          !.privkey_pem = privkey_pem,
                          !.csr_pem = <<"CERTIFICATE REQUEST", "key" \o ToString(p)>>,
                          !.ops = WriteFileOps(KeyFile, privkey_pem,
                                               hloc[p].call.key_mode)
                                  \o Tail(@)])
    /\ UNCHANGED <<zk, fs, lock, net, runvars, others>>

\* utils.generate_key_CSR(cn, ...): a new key and a signing request for it
GenerateKeyCSR(p) ==
    /\ Doing(p, "generate")
    /\ Continue(p, [Stepped(p) EXCEPT
                      !.privkey_pem = <<"PRIVATE KEY", "key" \o ToString(p)>>,
                      !.csr_pem = <<"CERTIFICATE REQUEST", "key" \o ToString(p)>>])
    /\ UNCHANGED <<zk, fs, lock, net, runvars, others>>

NetCall(p, service, token) == [by |-> p, service |-> service, token |-> token]

\* service_auth_token(service_account): the login answers with a token or
\* fails
Login(p) ==
    /\ Doing(p, "login")
    /\ net' = Append(net, NetCall(p, "iam", ""))
    /\ \/ /\ Continue(p, [Stepped(p) EXCEPT
                            !.token = "token-" \o hloc[p].call.service_account])
          /\ lock' = lock
       \/ Fails(p)
    /\ UNCHANGED <<zk, fs, runvars, others>>

\* cacli.sign(csr_pem): the authority answers with a certificate or fails
Sign(p) ==
    /\ Doing(p, "sign")
    /\ net' = Append(net, NetCall(p, "ca", hloc[p].token))
    /\ \/ LET crt == <<"BEGIN CERTIFICATE", hloc[p].csr_pem[2]>>
          IN  /\ Continue(p, [hloc[p] EXCEPT
                                !.crt = crt,
                                !.ops = WriteKeyCertificateOps(hloc[p].call,
                                            hloc[p].privkey_pem, crt)])
              /\ lock' = lock
       \/ Fails(p)
    /\ UNCHANGED <<zk, fs, runvars, others>>

HostNext ==
    \E p \in HostProcs :
        \/ HostBegin(p)
        \/ LockDir(p)
        \/ UnlockDir(p)
        \/ HostCreate(p)
        \/ HostSync(p)
        \/ HostGet(p)
        \/ CompareFile(p)
        \/ OpenFile(p)
        \/ WriteFile(p)
        \/ RenameFile(p)
        \/ CheckKeyCert(p)
        \/ GenerateKeyCSR(p)
        \/ Login(p)
        \/ Sign(p)

HostSpec == HostInit /\ [][HostNext]_vars

\* a step of process p of the host
HostStepBy(p) == HostNext /\ (hloc'[p] # hloc[p] \/ hpc'[p] # hpc[p])

\* the host with processes that go on: a process that can take a step (the
\* store, the identity service and the authority answer, a free lock is
\* granted) takes one
HostLiveSpec == HostSpec /\ \A p \in HostProcs : WF_vars(HostStepBy(p))

\* a process is killed inside create_key_certificate, at any point between
\* the check that found no valid pair and the return: the locks it holds
\* are released, a file it has opened stays as it is
Abort(p) ==
    /\ hpc[p] = "run"
    /\ hloc[p].call.fn = "ensure_key_certificate"
    /\ hloc[p].cert = "Invalid"
    /\ Fails(p)
    /\ UNCHANGED <<zk, fs, net, runvars, others>>

AbortNext ==
    \/ HostNext
    \/ \E p \in HostProcs : Abort(p)

\* the host, with processes that can be killed while they issue
AbortSpec == HostInit /\ [][AbortNext]_vars

-----------------------------------------------------------------------------
(* The configuration generator (gen_extra/calc.py).  A function is applied *)
(* once to arguments taken from a bounded set; it returns a value or       *)
(* raises.                                                                 *)
(*   str     the credentials of calculate_digest are sequences of          *)
(*           characters; the other arguments are strings                   *)
(*   digest  hashlib.sha1 is taken to be free of collisions: the digest    *)
(*           of a byte string is a token that carries the bytes            *)

\* the longest username and the longest password of a credential
MaxUser == 2
MaxPass == 3

Ret(value) == [state |-> "returned", value |-> value, exc |-> ""]
Exc(exc) == [state |-> "raised", value |-> <<>>, exc |-> exc]
NoResult == [state |-> "pending", value |-> <<>>, exc |-> ""]

\* the strings of at most n characters over an alphabet
Strings(n, alphabet) == UNION {[1..k -> alphabet] : k \in 0..n}

\* ord(c) of the characters in use
ord == ("u" :> 117) @@ ("p" :> 112) @@ (":" :> 58)

\* str.encode('utf-8') of a string of ASCII characters
utf8_encode(str) == [i \in DOMAIN str |-> ord[str[i]]]

\* empty(s)
empty(str) == str = <<>>

\* the index of the first sep in str, 0 if there is none
RECURSIVE find(_, _, _)
find(str, sep, i) ==
    IF i > Len(str) THEN 0
    ELSE IF str[i] = sep THEN i
    ELSE find(str, sep, i + 1)

\* the index of the last sep in str, 0 if there is none
RECURSIVE rfind(_, _, _)
rfind(str, sep, i) ==
    IF i = 0 THEN 0
    ELSE IF str[i] = sep THEN i
    ELSE rfind(str, sep, i - 1)

\* a split at the last separator
rsplit_1(str, sep) ==
    LET i == rfind(str, sep, Len(str))
    IN  IF i = 0 THEN <<str>>
        ELSE <<SubSeq(str, 1, i - 1), SubSeq(str, i + 1, Len(str))>>

\* str.split(sep, 1)
split_1(str, sep) ==
    LET i == find(str, sep, 1)
    IN  IF i = 0 THEN <<str>>
        ELSE <<SubSeq(str, 1, i - 1), SubSeq(str, i + 1, Len(str))>>

\* hashlib.sha1(data).digest()
sha1(data) == "sha1" \o ToString(data)

\* b64encode(digest).strip().decode('utf-8'): the text of the encoding, in
\* which there is no white space to strip
b64encode(digest) == <<"b64(" \o digest \o ")">>

\* calculate_digest(credentials)
calculate_digest(credentials) ==
    IF empty(credentials) THEN Ret(<<>>)
    ELSE LET parts == split_1(credentials, ":")
         IN  IF Len(parts) # 2 THEN Exc("ValueError")
             ELSE LET username == parts[1]
                      password == parts[2]
                      credential == utf8_encode(username) \o <<58>>
                                    \o utf8_encode(password)
                      cred_hash == b64encode(sha1(credential))
                  IN  Ret(username \o <<":">> \o cred_hash)

\* a credential: username ':' password, or none
Credentials ==
    {<<>>} \cup
    {u \o <<":">> \o pw : u \in Strings(MaxUser, {"u"}),
                          pw \in Strings(MaxPass, {"p", ":"})}

\* the functions that return an entry of a dict keyed by the security mode:
\* return {'strict': ..., 'permissive': ..., 'disabled': ...}[security]
SecurityKeyed ==
    [
      calculate_ssl_enabled |->
          [strict |-> "true", permissive |-> "true", disabled |-> "false"],
      calculate_ssl_support_downgrade |->
          [strict |-> "false", permissive |-> "true", disabled |-> "true"],
      calculate_adminrouter_master_enforce_https |->
          [strict |-> "all", permissive |-> "only_root_path", disabled |-> "none"],
      calculate_adminrouter_agent_enforce_https |->
          [strict |-> "all", permissive |-> "none", disabled |-> "none"],
      calculate_adminrouter_master_default_scheme |->
          [strict |-> "https://", permissive |-> "https://", disabled |-> "http://"],
      calculate_firewall_enabled |->
          [strict |-> "true", permissive |-> "false", disabled |-> "false"],
      calculate_mesos_authenticate_http |->
          [strict |-> "true", permissive |-> "true", disabled |-> "false"],
      calculate_mesos_authz_enforced |->
          [strict |-> "true", permissive |-> "false", disabled |-> "false"],
      calculate_mesos_elevate_unknown_users |->
          [strict |-> "false", permissive |-> "true", disabled |-> "false"],
      calculate_framework_authentication_required |->
          [strict |-> "true", permissive |-> "false", disabled |-> "false"],
      calculate_agent_authentication_required |->
          [strict |-> "true", permissive |-> "false", disabled |-> "false"],
      calculate_framework_authentication_enabled |->
          [strict |-> "true", permissive |-> "true", disabled |-> "false"],
      calculate_agent_authn_enabled |->
          [strict |-> "true", permissive |-> "true", disabled |-> "false"],
      calculate_default_task_user |->
          [strict |-> "nobody", permissive |-> "root", disabled |-> "root"],
      calculate_marathon_authn_mode |->
          [strict |-> "dcos/jwt", permissive |-> "dcos/jwt+anonymous", disabled |-> "disabled"],
      calculate_marathon_https_enabled |->
          [strict |-> "true", permissive |-> "true", disabled |-> "false"],
      calculate_marathon_extra_args |->
          [strict |-> "--disable_http", permissive |-> "", disabled |-> ""],
      calculate_zk_acls_enabled |->
          [strict |-> "true", permissive |-> "true", disabled |-> "false"] ]

\* d[key]
getitem(d, key) == IF key \in DOMAIN d THEN Ret(d[key]) ELSE Exc("KeyError")

\* a port function that takes every other mode for 'disabled'
calculate_marathon_port_defaulting(security) ==
    IF security \in {"strict", "permissive"} THEN Ret("8443")
    ELSE Ret("8080")

\* calculate_marathon_port(security)
calculate_marathon_port(security) ==
    IF security \in {"strict", "permissive"} THEN Ret("8443")
    ELSE IF security # "disabled" THEN Exc("AssertionError")
    ELSE Ret("8080")

\* calculate_adminrouter_master_port(security)
calculate_adminrouter_master_port(security) ==
    IF security \in {"strict", "permissive"} THEN Ret("443")
    ELSE IF security # "disabled" THEN Exc("AssertionError")
    ELSE Ret("80")

\* calculate_adminrouter_agent_port(security)
calculate_adminrouter_agent_port(security) ==
    IF security \in {"strict", "permissive"} THEN Ret("61002")
    ELSE IF security # "disabled" THEN Exc("AssertionError")
    ELSE Ret("61001")

PortFns ==
    {"calculate_marathon_port", "calculate_adminrouter_master_port",
     "calculate_adminrouter_agent_port"}

\* calculate_superuser_credentials_given(superuser_username,
\* superuser_password_hash): a str is true if it is not empty
calculate_superuser_credentials_given(superuser_username, superuser_password_hash) ==
    LET pair == <<superuser_username, superuser_password_hash>>
    IN  IF \A i \in DOMAIN pair : pair[i] # "" THEN Ret("true")
        ELSE IF ~\E i \in DOMAIN pair : pair[i] # "" THEN Ret("false")
        ELSE Exc("AssertionError")

\* the values given for `security`: the three modes, and values that are
\* none of them
SecurityValues == Modes \cup {"", "enabled", "Strict", "permissive "}

\* a call: the arguments that are strings, and the credentials of
\* calculate_digest, which are a sequence of characters
CalcCall(fn, a) == [fn |-> fn, a |-> a, credentials |-> <<>>]

CalcCalls ==
    {[CalcCall("calculate_digest", <<>>) EXCEPT !.credentials = c] :
        c \in Credentials}
    \cup {CalcCall(fn, <<security>>) :
              fn \in DOMAIN SecurityKeyed \cup PortFns, security \in SecurityValues}
    \cup {CalcCall("calculate_superuser_credentials_given", <<u, h>>) :
              u \in {"", "admin"}, h \in {"", "$6$hash"}}

CalcInit ==
    /\ NoRuns /\ zk = <<>> /\ NoHost /\ NoIam /\ NoMat /\ NoFx /\ NoRole
    /\ NoAcct
    /\ args \in CalcCalls
    /\ result = NoResult

\* the function is applied to its arguments
Apply(fn, value) ==
    /\ args.fn = fn
    /\ result.state = "pending"
    /\ result' = value
    /\ UNCHANGED <<args, zk, runvars, hostvars, iamvars, matvars, fxvars, rolevars, acctvars>>

ApplyDigest == Apply("calculate_digest", calculate_digest(args.credentials))

ApplySecurityKeyed ==
    \E fn \in DOMAIN SecurityKeyed : Apply(fn, getitem(SecurityKeyed[fn], args.a[1]))

ApplyPort ==
    \/ Apply("calculate_marathon_port", calculate_marathon_port(args.a[1]))
    \/ Apply("calculate_adminrouter_master_port",
             calculate_adminrouter_master_port(args.a[1]))
    \/ Apply("calculate_adminrouter_agent_port",
             calculate_adminrouter_agent_port(args.a[1]))

ApplySuperuser ==
    Apply("calculate_superuser_credentials_given",
          calculate_superuser_credentials_given(args.a[1], args.a[2]))

CalcNext ==
    \/ ApplyDigest
    \/ ApplySecurityKeyed
    \/ ApplyPort
    \/ ApplySuperuser

CalcSpec == CalcInit /\ [][CalcNext]_vars

-----------------------------------------------------------------------------
(* The identity service.  Masters that hold the agreed master secrets      *)
(* register service accounts and permissions; they interleave at the       *)
(* granularity of one request.  The client (iam.IAMClient) and the service *)
(* are not part of the source: a request is answered as the service        *)
(* contract says (an account that exists is reported as a conflict, which  *)
(* the client passes over when called with exist_ok; every other error     *)
(* status is raised), and what the service answers to a membership or a    *)
(* permission that is already there is left open.                          *)

\* number of masters that talk to the identity service
NumMasters == 2

Masters == 1..NumMasters

\* marathon_iam_acls: permissive_acls, strict_acls
marathon_acls ==
    [ permissive |->
          << <<"dcos:mesos:master:framework", "create">>,
             <<"dcos:mesos:master:reservation", "create">>,
             <<"dcos:mesos:master:reservation", "delete">>,
             <<"dcos:mesos:master:task", "create">>,
             <<"dcos:mesos:master:volume", "create">>,
             <<"dcos:mesos:master:volume", "delete">> >>,
      strict |->
          << <<"dcos:mesos:master:framework:role:slave_public", "create">>,
             <<"dcos:mesos:master:reservation:role:slave_public", "create">>,
             <<"dcos:mesos:master:reservation:principal:dcos_marathon", "delete">>,
             <<"dcos:mesos:master:task:user:nobody", "create">>,
             <<"dcos:mesos:master:task:app_id", "create">>,
             <<"dcos:mesos:master:volume:principal:dcos_marathon", "delete">>,
             <<"dcos:mesos:master:volume:role:slave_public", "create">> >> ]

\* metronome_iam_acls: permissive_acls, strict_acls
metronome_acls ==
    [ permissive |->
          << <<"dcos:mesos:master:framework", "create">>,
             <<"dcos:mesos:master:task", "create">> >>,
      strict |->
          << <<"dcos:mesos:master:framework:role:*", "create">>,
             <<"dcos:mesos:master:task:app_id", "create">>,
             <<"dcos:mesos:master:task:user:nobody", "create">> >> ]

\* a request to the identity service
Req(op, uid, body) == [op |-> op, uid |-> uid, body |-> body]

\* utils.public_key_pem(utils.load_pem_private_key(account['private_key']))
public_key_pem(private_key) == "public key of " \o private_key

\* self.secrets['services'][uid]: the account all masters have agreed on
Account(uid) == ServiceCred(uid, Earlier)

\* a create_service_account that registers the account and nothing else
create_service_account_only(uid, superuser) ==
    <<Req("create_service_account", uid,
          <<public_key_pem(Account(uid).kv["private_key"].s)>>)>>

\* create_service_account(uid, superuser): the requests it makes
create_service_account(uid, superuser) ==
    <<Req("create_service_account", uid,
          <<public_key_pem(Account(uid).kv["private_key"].s)>>)>>
    \o (IF superuser THEN <<Req("add_user_to_group", uid, <<"superusers">>)>>
        ELSE <<>>)

\* a marathon_iam_acls that submits the list of permissive mode whenever
\* security is not disabled
marathon_iam_acls_permissive(security) ==
    IF security \in {"permissive", "strict"}
    THEN <<Req("create_acls", "dcos_marathon", marathon_acls.permissive)>>
    ELSE <<>>

\* marathon_iam_acls(): the requests it makes
marathon_iam_acls(security) ==
    IF security = "permissive"
    THEN <<Req("create_acls", "dcos_marathon", marathon_acls.permissive)>>
    ELSE IF security = "strict"
    THEN <<Req("create_acls", "dcos_marathon", marathon_acls.strict)>>
    ELSE <<>>

\* metronome_iam_acls(): the requests it makes
metronome_iam_acls(security) ==
    IF security = "permissive"
    THEN <<Req("create_acls", "dcos_metronome", metronome_acls.permissive)>>
    ELSE IF security = "strict"
    THEN <<Req("create_acls", "dcos_metronome", metronome_acls.strict)>>
    ELSE <<>>

\* a call of a workflow and the requests it makes
IamCall(fn, uid, ops) == [fn |-> fn, uid |-> uid, ops |-> ops]

\* opts.config of a cluster whose configuration was generated for a
\* security mode
Config(security) ==
    [ security |-> security,
      framework_authentication_enabled |->
          SecurityKeyed.calculate_framework_authentication_enabled[security]
              = "true" ]

\* a dcos_marathon that creates the permissions before the account
dcos_marathon_acls_first(config) ==
    <<IamCall("marathon_iam_acls", "dcos_marathon",
              marathon_iam_acls(config.security))>>
    \o (IF config.framework_authentication_enabled
        THEN <<IamCall("create_service_account", "dcos_marathon",
                       create_service_account("dcos_marathon", FALSE))>>
        ELSE <<>>)

\* dcos_marathon(b, opts): its calls to the identity service
dcos_marathon(config) ==
    (IF config.framework_authentication_enabled
     THEN <<IamCall("create_service_account", "dcos_marathon",
                    create_service_account("dcos_marathon", FALSE))>>
     ELSE <<>>)
    \o <<IamCall("marathon_iam_acls", "dcos_marathon",
                 marathon_iam_acls(config.security))>>

\* dcos_metronome(b, opts): its calls to the identity service
dcos_metronome(config) ==
    (IF config.framework_authentication_enabled
     THEN <<IamCall("create_service_account", "dcos_metronome",
                    create_service_account("dcos_metronome", FALSE))>>
     ELSE <<>>)
    \o <<IamCall("metronome_iam_acls", "dcos_metronome",
                 metronome_iam_acls(config.security))>>

\* dcos_adminrouter(b, opts): its call to the identity service
dcos_adminrouter(config) ==
    <<IamCall("create_service_account", "dcos_adminrouter",
              create_service_account("dcos_adminrouter", TRUE))>>

IamWorkflows(config) ==
    [ dcos_marathon |-> dcos_marathon(config),
      dcos_metronome |-> dcos_metronome(config),
      dcos_adminrouter |-> dcos_adminrouter(config) ]

IamWorkflowOrder == <<"dcos_marathon", "dcos_metronome", "dcos_adminrouter">>

IamRank(w) == CHOOSE i \in DOMAIN IamWorkflowOrder : IamWorkflowOrder[i] = w

NoService == [accounts |-> {}, members |-> {}, acls |-> {}]

\* the masters are interchangeable: their workflows are started in order
IamInit ==
    /\ NoRuns /\ zk = <<>> /\ NoHost /\ NoCalc /\ NoMat /\ NoFx /\ NoRole
    /\ NoAcct
    /\ iam = NoService
    /\ reqs = <<>>
    /\ ipc = [p \in Masters |-> "idle"]
    /\ \E security \in Modes :
       \E w \in {v \in [Masters -> DOMAIN IamWorkflows(Config(security))] :
                    \A p, q \in Masters : p < q => IamRank(v[p]) <= IamRank(v[q])} :
           iloc = [p \in Masters |->
                     [wf |-> w[p], security |-> security,
                      calls |-> IamWorkflows(Config(security))[w[p]],
                      call |-> IamCall("", "", <<>>), ops |-> <<>>,
                      completed |-> <<>>]]

\* the request is answered: the call goes on, returns, or was the last
IamContinue(p, l) ==
    LET r == IF l.ops = <<>> /\ l.call.fn # ""
             THEN [l EXCEPT !.completed = Append(@, <<l.call.fn, l.call.uid>>),
                            !.call = IamCall("", "", <<>>)]
             ELSE l
    IN  /\ iloc' = [iloc EXCEPT ![p] = r]
        /\ ipc' = [ipc EXCEPT ![p] =
                     IF r.ops # <<>> THEN "run"
                     ELSE IF r.calls = <<>> THEN "done" ELSE "idle"]

\* r.raise_for_status(): the error leaves the workflow
IamFails(p) ==
    /\ ipc' = [ipc EXCEPT ![p] = "failed"]
    /\ iloc' = iloc

Answer(p, status) ==
    reqs' = Append(reqs, [by |-> p, req |-> Head(iloc[p].ops), status |-> status])

IamStepped(p) == [iloc[p] EXCEPT !.ops = Tail(@)]

Requesting(p, op) == ipc[p] = "run" /\ Head(iloc[p].ops).op = op

\* the master makes the next call of its workflow
IamBegin(p) ==
    /\ ipc[p] = "idle"
    /\ iloc[p].calls # <<>>
    /\ IamContinue(p, [iloc[p] EXCEPT !.calls = Tail(@),
                                      !.call = Head(iloc[p].calls),
                                      !.ops = Head(iloc[p].calls).ops])
    /\ UNCHANGED <<iam, reqs, zk, runvars, hostvars, calcvars, matvars, fxvars,
                   rolevars, acctvars>>

\* a create_service_account without exist_ok: the conflict is raised
PutServiceAccountNoExistOk(p) ==
    /\ Requesting(p, "create_service_account")
    /\ LET uid == Head(iloc[p].ops).uid IN
       \/ /\ uid \notin iam.accounts
          /\ iam' = [iam EXCEPT !.accounts = @ \cup {uid}]
          /\ Answer(p, 201)
          /\ IamContinue(p, IamStepped(p))
       \/ /\ uid \in iam.accounts
          /\ iam' = iam
          /\ Answer(p, 409)
          /\ IamFails(p)
       \/ /\ iam' = iam
          /\ Answer(p, 500)
          /\ IamFails(p)
    /\ UNCHANGED <<zk, runvars, hostvars, calcvars, matvars, fxvars, rolevars, acctvars>>

\* iamcli.create_service_account(uid, public_key=pubkey_pem, exist_ok=True)
PutServiceAccount(p) ==
    /\ Requesting(p, "create_service_account")
    /\ LET uid == Head(iloc[p].ops).uid IN
       \/ /\ uid \notin iam.accounts
          /\ iam' = [iam EXCEPT !.accounts = @ \cup {uid}]
          /\ Answer(p, 201)
          /\ IamContinue(p, IamStepped(p))
       \/ /\ uid \in iam.accounts
          /\ iam' = iam
          /\ Answer(p, 409)
          /\ IamContinue(p, IamStepped(p))
       \/ /\ iam' = iam
          /\ Answer(p, 500)
          /\ IamFails(p)
    /\ UNCHANGED <<zk, runvars, hostvars, calcvars, matvars, fxvars, rolevars, acctvars>>

\* iamcli.add_user_to_group(uid, 'superusers')
AddUserToGroup(p) ==
    /\ Requesting(p, "add_user_to_group")
    /\ LET uid == Head(iloc[p].ops).uid
           member == <<uid, Head(iloc[p].ops).body[1]>>
       IN
       \/ /\ iam' = [iam EXCEPT !.members = @ \cup {member}]
          /\ Answer(p, 204)
          /\ IamContinue(p, IamStepped(p))
       \/ /\ iam' = iam
          /\ Answer(p, IF member \in iam.members THEN 409 ELSE 500)
          /\ IamFails(p)
    /\ UNCHANGED <<zk, runvars, hostvars, calcvars, matvars, fxvars, rolevars, acctvars>>

\* iamcli.create_acls(acls, uid)
CreateAcls(p) ==
    /\ Requesting(p, "create_acls")
    /\ LET uid == Head(iloc[p].ops).uid
           granted == {<<uid, a[1], a[2]>> : a \in Range(Head(iloc[p].ops).body)}
       IN
       \/ /\ iam' = [iam EXCEPT !.acls = @ \cup granted]
          /\ Answer(p, 204)
          /\ IamContinue(p, IamStepped(p))
       \/ /\ iam' = iam
          /\ Answer(p, IF granted \subseteq iam.acls THEN 409 ELSE 500)
          /\ IamFails(p)
    /\ UNCHANGED <<zk, runvars, hostvars, calcvars, matvars, fxvars, rolevars, acctvars>>

IamNext ==
    \E p \in Masters :
        \/ IamBegin(p)
        \/ PutServiceAccount(p)
        \/ AddUserToGroup(p)
        \/ CreateAcls(p)

IamSpec == IamInit /\ [][IamNext]_vars

-----------------------------------------------------------------------------
(* One _create_secrets over a store left behind.  A cluster is configured  *)
(* again with another security mode: the store holds what an earlier run   *)
(* materialized under the ACL of its mode, and one run, on its own,        *)
(* materializes a level of its tree, going over the keys of that level in  *)
(* some order.                                                             *)

\* the run that materializes
Current == CHOOSE p \in Procs : \A q \in Procs : p <= q

\* what a command of _create_secrets does to the store and to the tree of
\* the run that sends it
Effect(c, store, tree, p) ==
    CASE c.op = "ensure_zk_path" ->
             [zk |-> ensure_zk_path(store, c.path, c.acl), tree |-> tree]
      [] c.op = "create" ->
             [zk |-> consensus_create(store, c.path, c.value, c.acl, p),
              tree |-> tree]
      [] c.op = "get" ->
             [zk |-> store,
              tree |-> TreeSet(tree, c.dst, json_loads(store[c.path].value))]
      [] c.op = "set_acls" ->
             [zk |-> set_acls(store, c.path, c.acl), tree |-> tree]
      [] OTHER -> [zk |-> store, tree |-> tree]

\* the store and the tree once all the commands are answered
RECURSIVE Materialized(_, _, _, _)
Materialized(store, tree, ops, p) ==
    IF ops = <<>> THEN [zk |-> store, tree |-> tree]
    ELSE LET e == Effect(Head(ops), store, tree, p)
         IN  Materialized(e.zk, e.tree, Tail(ops), p)

\* the levels materialized: the master secrets from their base path, and the
\* recursive call for the services of the agent secrets
Levels == {"master", "agent_services"}

\* _create_secrets(basepath, secrets, acl) as called for a level by run p
LevelCall(level, o, p) ==
    IF level = "master"
    THEN [basepath |-> MasterSecretsPath, tree |-> MasterSecrets(o, p),
          acl |-> MasterSecretsAcl(o)]
    ELSE [basepath |-> Append(AgentSecretsPath, "services"),
          tree |-> AgentSecrets(p).kv["services"],
          acl |-> AgentSecretsAcl(o)]

\* the store an earlier run has left: nothing, or the secrets of the level
\* materialized in the security mode of that run
LeftBy(level, mode) ==
    IF mode = "none" THEN EmptyStore
    ELSE LET o == ParseArgs(mode)
             c == IF level = "master" THEN LevelCall(level, o, Earlier)
                  ELSE [basepath |-> AgentSecretsPath,
                        tree |-> AgentSecrets(Earlier),
                        acl |-> AgentSecretsAcl(o)]
         IN  Materialized(EmptyStore, c.tree,
                          _create_secrets(c.basepath, c.tree, c.acl), Earlier).zk

\* the orders in which secrets.items() may go over the keys of a dict
Orders(d) ==
    {s \in [1..Cardinality(DOMAIN d.kv) -> DOMAIN d.kv] :
         \A i, j \in DOMAIN s : s[i] = s[j] => i = j}

MatInit ==
    /\ NoRuns /\ NoHost /\ NoCalc /\ NoIam /\ NoFx /\ NoRole
    /\ NoAcct
    /\ \E level \in Levels, mode \in Modes, left \in Modes \cup {"none"} :
         LET c == LevelCall(level, ParseArgs(mode), Current) IN
         \E order \in Orders(c.tree) :
             /\ zk = LeftBy(level, left)
             /\ mat = [level |-> level, mode |-> mode, left |-> left,
                       order |-> order, basepath |-> c.basepath, acl |-> c.acl,
                       secrets |-> c.tree, tree |-> c.tree, zk0 |-> zk,
                       ops |-> CreateSecretsOps(c.basepath, c.tree, c.acl,
                                                order, <<>>),
                       sent |-> <<>>, pc |-> "run"]

\* the command the run sends next
MatCmd == Head(mat.ops)

MatSending(op) == mat.pc = "run" /\ mat.ops # <<>> /\ MatCmd.op = op

\* the command is answered
MatAnswered ==
    LET e == Effect(MatCmd, zk, mat.tree, Current) IN
    /\ zk' = e.zk
    /\ mat' = [mat EXCEPT !.tree = e.tree, !.ops = Tail(@),
                          !.sent = Append(@, MatCmd),
                          !.pc = IF Tail(mat.ops) = <<>> THEN "done" ELSE "run"]
    /\ UNCHANGED <<runvars, hostvars, calcvars, iamvars, fxvars, rolevars, acctvars>>

\* self.ensure_zk_path(basepath, acl=acl)
MatEnsureZkPath == MatSending("ensure_zk_path") /\ MatAnswered

\* self.zk.create(path, value, acl=acl): NoNodeError leaves the call
MatCreate ==
    /\ MatSending("create")
    /\ IF Parent(MatCmd.path) \in DOMAIN zk THEN MatAnswered
       ELSE /\ mat' = [mat EXCEPT !.pc = "failed"]
            /\ UNCHANGED <<zk, runvars, hostvars, calcvars, iamvars, fxvars,
                         rolevars, acctvars>>

\* self.zk.sync(path)
MatSync == MatSending("sync") /\ MatAnswered

\* self.zk.get(path)[0]
MatGet == MatSending("get") /\ MatAnswered

\* self.zk.set_acls(path, acl)
MatSetAcls == MatSending("set_acls") /\ MatAnswered

MatNext ==
    \/ MatEnsureZkPath
    \/ MatCreate
    \/ MatSync
    \/ MatGet
    \/ MatSetAcls

MatSpec == MatInit /\ [][MatNext]_vars

-----------------------------------------------------------------------------
(* The iam_verify_and_reset fixture of the integration tests.  The test    *)
(* harness steps the generator to its yield, runs the test if the          *)
(* generator has yielded, and finishes the generator; the identity service *)
(* holds what earlier tests and the cluster's bootstrap have left.         *)

\* superuser.uid, peter.uid and what the session has seen at first
Expected == {"superuser", "peter"}

initial_resource_ids == {"dcos:superuser"}

\* what the identity service holds: the uids, the gids, the rids of the
\* ACLs, the rids peter has direct permissions on, the gids peter is in
IamState(users, groups, rids, direct, member) ==
    [users |-> users, groups |-> groups, rids |-> rids, direct |-> direct,
     member |-> member]

IamStates ==
    {IamState(Expected \cup users, {"superusers"} \cup groups,
              initial_resource_ids \cup rids, direct, member) :
         users \in {{}, {"mallory"}, {"dcos_marathon"}},
         groups \in {{}, {"staff"}},
         rids \in {{}, {"dcos:test"}},
         direct \in {{}, {"dcos:superuser"}},
         member \in {{}, {"superusers"}}}

\* iam_verify_undecorated: the four assertions
iam_verify_undecorated(st) ==
    IF /\ st.users = Expected
       /\ st.groups = {"superusers"}
       /\ st.member = {}
       /\ st.direct = {}
    THEN "ok"
    ELSE "AssertionError"

\* what a test may do to the identity service
TestEffects(st) ==
    { st,
      [st EXCEPT !.users = @ \cup {"mallory"}],
      [st EXCEPT !.groups = @ \cup {"staff"}, !.member = @ \cup {"staff"}],
      [st EXCEPT !.rids = @ \cup {"dcos:test"}, !.direct = @ \cup {"dcos:test"}],
      [st EXCEPT !.member = @ \cup {"superusers"}] }

\* the ways the harness may finish a generator suspended at its yield
Resumes == {"next", "throw", "close"}

\* a fixture whose reset is the statement after the yield, without finally
iam_verify_and_reset_no_finally(block, ended) ==
    CASE block = "try" /\ ended = "ok" -> "yield"
      [] block = "try" -> "exit"
      [] block = "yield" /\ ended = "next" -> "finally"
      [] block = "yield" -> "exit"
      [] OTHER -> "exit"

\* iam_verify_and_reset: the block the generator goes to when a block has
\* ended: try (verification) goes to else (the yield) when nothing was
\* raised and to finally, through except and its raise, otherwise; the
\* yield goes to finally however the generator is resumed; finally ends the
\* generator
iam_verify_and_reset(block, ended) ==
    CASE block = "try" /\ ended = "ok" -> "yield"
      [] block = "try" -> "finally"
      [] block = "yield" -> "finally"
      [] OTHER -> "exit"

FxInit ==
    /\ NoRuns /\ zk = <<>> /\ NoHost /\ NoCalc /\ NoIam /\ NoMat /\ NoRole
    /\ NoAcct
    /\ \E st \in IamStates :
           fx = [pc |-> "try", st |-> st, verified |-> "", yielded |-> FALSE,
                 test |-> "", resumed |-> "", reset |-> 0, raised |-> ""]

FxUnchanged ==
    UNCHANGED <<zk, runvars, hostvars, calcvars, iamvars, matvars, rolevars, acctvars>>

\* the harness sets the fixture up: the generator runs to its yield or ends
\* the try block with an exception (a failed assertion, or an error of the
\* request)
FxVerify ==
    /\ fx.pc = "try"
    /\ \E ended \in {iam_verify_undecorated(fx.st), "ConnectionError"} :
           fx' = [fx EXCEPT !.verified = ended,
                            !.pc = iam_verify_and_reset("try", ended),
                            !.yielded = iam_verify_and_reset("try", ended) = "yield",
                            !.raised = IF ended = "ok" THEN "" ELSE ended]
    /\ FxUnchanged

\* the test runs: it passes or raises
FxTest ==
    /\ fx.pc = "yield"
    /\ fx.test = ""
    /\ \E st \in TestEffects(fx.st), ended \in {"passed", "raised"} :
           fx' = [fx EXCEPT !.st = st, !.test = ended]
    /\ FxUnchanged

\* the harness finishes the generator, after the test or without it
FxTeardown ==
    /\ fx.pc = "yield"
    /\ \E how \in Resumes :
           fx' = [fx EXCEPT !.resumed = how,
                            !.pc = iam_verify_and_reset("yield", how)]
    /\ FxUnchanged

\* a step of iam_reset_undecorated: the deletes are made, or a request is
\* answered with an error that raise_for_status raises
ResetStep(n, st) ==
    /\ \/ fx' = [fx EXCEPT !.reset = n, !.st = st,
                           !.pc = IF n = 5
                                  THEN iam_verify_and_reset("finally", "ok")
                                  ELSE "finally"]
       \/ fx' = [fx EXCEPT !.reset = n, !.raised = "HTTPError",
                           !.pc = iam_verify_and_reset("finally", "HTTPError")]
    /\ FxUnchanged

\* Remove unexpected users.
ResetUsers ==
    /\ fx.pc = "finally" /\ fx.reset = 0
    /\ ResetStep(1, [fx.st EXCEPT !.users =
                        @ \cap (Expected \cup {"dcos_marathon", "dcos_metronome"})])

\* Remove unexpected groups.
ResetGroups ==
    /\ fx.pc = "finally" /\ fx.reset = 1
    /\ ResetStep(2, [fx.st EXCEPT !.groups = @ \cap {"superusers"},
                                  !.member = @ \cap {"superusers"}])

\* Remove ACLs that are not part of the initially seen ones.
ResetAcls ==
    /\ fx.pc = "finally" /\ fx.reset = 2
    /\ ResetStep(3, [fx.st EXCEPT !.rids = @ \cap initial_resource_ids,
                                  !.direct = @ \cap initial_resource_ids])

\* Remove Peter's direct permissions.
ResetPermissions ==
    /\ fx.pc = "finally" /\ fx.reset = 3
    /\ ResetStep(4, [fx.st EXCEPT !.direct = {}])

\* Remove Peter's group memberships.
ResetMemberships ==
    /\ fx.pc = "finally" /\ fx.reset = 4
    /\ ResetStep(5, [fx.st EXCEPT !.member = {}])

FxNext ==
    \/ FxVerify
    \/ FxTest
    \/ FxTeardown
    \/ ResetUsers
    \/ ResetGroups
    \/ ResetAcls
    \/ ResetPermissions
    \/ ResetMemberships

FxSpec == FxInit /\ [][FxNext]_vars

\* the harness goes on until the generator has ended
FxLiveSpec == FxSpec /\ WF_vars(FxNext)

----------------------------------------------------------------------------
(* The role workflows of the bootstrappers table, step by step: the service
   accounts the secrets of the run hold, the local names the workflow has
   bound, the files it has ensured and whose owner it has changed. *)

\* Bootstrapper.agent_services
self_agent_services ==
    <<"dcos_3dt_agent", "dcos_adminrouter_agent", "dcos_agent",
      "dcos_log_agent", "dcos_mesos_agent", "dcos_mesos_agent_public",
      "dcos_metrics_agent", "dcos_minuteman_agent", "dcos_navstar_agent",
      "dcos_spartan_agent">>

\* master_service_accounts of create_master_secrets
all_master_service_accounts(security) ==
    <<"dcos_3dt_master", "dcos_adminrouter", "dcos_history_service",
      "dcos_log_master", "dcos_marathon", "dcos_mesos_dns",
      "dcos_metrics_master", "dcos_metronome", "dcos_minuteman_master",
      "dcos_navstar_master", "dcos_networking_api_master",
      "dcos_signal_service", "dcos_spartan_master">>
    \o (IF security = "permissive" THEN <<"dcos_anonymous">> ELSE <<>>)

\* service_account_zk_creds of create_master_secrets
all_service_account_zk_creds ==
    <<"dcos_bouncer", "dcos_ca", "dcos_cosmos", "dcos_marathon",
      "dcos_mesos_master", "dcos_metronome", "dcos_secrets",
      "dcos_vault_default">>

\* the flag of the configuration that a function of the generator computes
Flag(fn, security) == SecurityKeyed[fn][security] = "true"

\* a configuration with TLS in every mode
opts_config_ssl_always(security) ==
    [ security |-> security,
      zk_acls_enabled |-> Flag("calculate_zk_acls_enabled", security),
      ssl_enabled |-> TRUE,
      marathon_https_enabled |->
          Flag("calculate_marathon_https_enabled", security),
      framework_authentication_enabled |->
          Flag("calculate_framework_authentication_enabled", security),
      agent_authn_enabled |-> Flag("calculate_agent_authn_enabled", security),
      mesos_authenticate_http |->
          Flag("calculate_mesos_authenticate_http", security),
      framework_authentication_required |->
          Flag("calculate_framework_authentication_required", security),
      agent_authentication_required |->
          Flag("calculate_agent_authentication_required", security) ]

\* opts.config as the workflows read it: the flags the generator has
\* computed from the security mode
opts_config(security) ==
    [ security |-> security,
      zk_acls_enabled |-> Flag("calculate_zk_acls_enabled", security),
      ssl_enabled |-> Flag("calculate_ssl_enabled", security),
      marathon_https_enabled |->
          Flag("calculate_marathon_https_enabled", security),
      framework_authentication_enabled |->
          Flag("calculate_framework_authentication_enabled", security),
      agent_authn_enabled |-> Flag("calculate_agent_authn_enabled", security),
      mesos_authenticate_http |->
          Flag("calculate_mesos_authenticate_http", security),
      framework_authentication_required |->
          Flag("calculate_framework_authentication_required", security),
      agent_authentication_required |->
          Flag("calculate_agent_authentication_required", security) ]

\* the steps of a workflow: a call that fills self.secrets, a lookup of
\* self.secrets['services'][uid] or of self.secrets['zk'][uid], the binding
\* of local names, an
\* ensure_key_certificate, a shutil.chown of a local name, a
\* write_service_auth_token; each with the line of the source it stands on
Fill(fn, line) ==
    [op |-> "fill", by |-> fn, uid |-> "", names |-> {}, line |-> line]

Lookup(fn, uid, line) ==
    [op |-> "lookup", by |-> fn, uid |-> uid, names |-> {}, line |-> line]

ZkLookup(fn, uid, line) ==
    [op |-> "zklookup", by |-> fn, uid |-> uid, names |-> {}, line |-> line]

Bind(names, line) ==
    [op |-> "bind", by |-> "", uid |-> "", names |-> names, line |-> line]

Ensure(names, service_account, line) ==
    [op |-> "ensure", by |-> "ensure_key_certificate",
     uid |-> service_account, names |-> names, line |-> line]

Chown(name, line) ==
    [op |-> "chown", by |-> "shutil.chown", uid |-> "", names |-> {name},
     line |-> line]

Token(uid, line) ==
    [op |-> "token", by |-> "write_service_auth_token", uid |-> uid,
     names |-> {}, line |-> line]

When(cond, steps) == IF cond THEN steps ELSE <<>>

\* create_service_account(uid) followed by
\* write_service_account_credentials(uid)
AccountAndCredentials(uid, line1, line2) ==
    <<Lookup("create_service_account", uid, line1),
      Lookup("write_service_account_credentials", uid, line2)>>

\* create_agent_service_accounts
create_agent_service_accounts ==
    [i \in DOMAIN self_agent_services |->
        Lookup("create_service_account", self_agent_services[i], 382)]

dcos_mesos_master_steps(config) ==
    <<Fill("create_master_secrets", 1123)>>
    \o When(config.ssl_enabled,
            <<Bind({"keypath", "crtpath"}, 1129),
              Ensure({"keypath", "crtpath"}, "", 1131)>>)
    \o <<Fill("create_agent_secrets", 1134)>>
    \o create_agent_service_accounts
    \o When(config.security = "permissive",
            <<Lookup("create_service_account", "dcos_anonymous", 1143)>>)

dcos_mesos_slave_steps(config) ==
    <<Fill("read_agent_secrets", 1147)>>
    \o When(config.ssl_enabled,
            <<Bind({"keypath", "crtpath"}, 1151),
              Ensure({"keypath", "crtpath"}, "dcos_agent", 1153)>>)
    \o <<Lookup("write_service_account_credentials", "dcos_mesos_agent",
                1161)>>
    \o When(config.ssl_enabled,
            <<Bind({"keypath", "crtpath"}, 1165),
              Ensure({"keypath", "crtpath"}, "dcos_agent", 1167)>>)

dcos_mesos_slave_public_steps(config) ==
    <<Fill("read_agent_secrets", 1171)>>
    \o When(config.ssl_enabled,
            <<Bind({"keypath", "crtpath"}, 1176),
              Ensure({"keypath", "crtpath"}, "dcos_agent", 1178)>>)
    \o <<Lookup("write_service_account_credentials",
                "dcos_mesos_agent_public", 1186)>>
    \o When(config.ssl_enabled,
            <<Bind({"keypath", "crtpath"}, 1190),
              Ensure({"keypath", "crtpath"}, "dcos_agent", 1192)>>)

dcos_marathon_steps(config) ==
    <<Fill("create_master_secrets", 1197)>>
    \o When(config.zk_acls_enabled,
            <<ZkLookup("make_service_acl", "dcos_marathon", 1198),
              ZkLookup("write_marathon_zk_env", "dcos_marathon", 1203)>>)
    \o When(config.ssl_enabled \/ config.marathon_https_enabled,
            <<Bind({"key", "crt"}, 1208), Ensure({"key", "crt"}, "", 1210),
              Chown("key", 1211), Chown("crt", 1212)>>)
    \o When(config.framework_authentication_enabled,
            AccountAndCredentials("dcos_marathon", 1230, 1232))

dcos_metronome_steps(config) ==
    <<Fill("create_master_secrets", 1241)>>
    \o When(config.zk_acls_enabled,
            <<ZkLookup("make_service_acl", "dcos_metronome", 1242)>>)
    \o When(config.ssl_enabled,
            <<Bind({"key", "crt"}, 1246), Ensure({"key", "crt"}, "", 1248),
              Chown("key", 1249), Chown("crt", 1250),
              ZkLookup("write_metronome_env", "dcos_metronome", 1260)>>)
    \o When(config.framework_authentication_enabled,
            AccountAndCredentials("dcos_metronome", 1266, 1268))

dcos_mesos_dns_steps(config) ==
    <<Fill("create_master_secrets", 1279),
      Lookup("create_service_account", "dcos_mesos_dns", 1281)>>
    \o When(config.mesos_authenticate_http,
            <<Lookup("write_service_account_credentials", "dcos_mesos_dns",
                     1289)>>)

dcos_adminrouter_steps(config) ==
    <<Fill("create_master_secrets", 1295),
      Lookup("create_service_account", "dcos_adminrouter", 1299)>>
    \o When(config.ssl_enabled,
            <<Bind({"keypath", "crtpath"}, 1319),
              Ensure({"keypath", "crtpath"}, "", 1321)>>)
    \o <<Token("dcos_adminrouter", 1327)>>

dcos_adminrouter_agent_steps(config) ==
    <<Fill("read_agent_secrets", 1352)>>
    \o When(config.ssl_enabled,
            <<Bind({"keypath", "crtpath"}, 1357),
              Ensure({"keypath", "crtpath"}, "dcos_agent", 1359)>>)
    \o <<Token("dcos_adminrouter_agent", 1366)>>

dcos_spartan_master(config) ==
    <<Fill("create_master_secrets", 1378)>>
    \o When(config.ssl_enabled,
            <<Bind({"key", "crt"}, 1383), Ensure({"key", "crt"}, "", 1385)>>)

dcos_spartan_agent(config) ==
    <<Fill("read_agent_secrets", 1389)>>
    \o When(config.ssl_enabled,
            <<Bind({"keypath", "crtpath"}, 1394),
              Ensure({"keypath", "crtpath"}, "dcos_agent", 1396)>>)

\* dcos_spartan: the role file of the node decides
dcos_spartan(config, master) ==
    IF master THEN dcos_spartan_master(config) ELSE dcos_spartan_agent(config)

dcos_erlang_service_master(servicename, config) ==
    <<Fill("create_master_secrets", 1418),
      Lookup("create_service_account", "dcos_" \o servicename \o "_master",
             1420),
      Bind({"user"}, 1422), Bind({"ca"}, 1424),
      Bind({"key", "crt"}, 1428), Ensure({"key", "crt"}, "", 1430)>>
    \o When(servicename = "networking_api",
            <<Chown("key", 1432), Chown("crt", 1433)>>)
    \o <<Bind({"auth_env"}, 1435),
         Token("dcos_" \o servicename \o "_master", 1436)>>
    \o When(servicename = "networking_api", <<Chown("auth_env", 1438)>>)

dcos_erlang_service_agent(servicename, config) ==
    <<Fill("read_agent_secrets", 1442), Bind({"user"}, 1444)>>
    \o When(config.ssl_enabled,
            <<Bind({"ca"}, 1447), Bind({"key", "crt"}, 1451),
              Ensure({"key", "crt"}, "dcos_agent", 1453)>>)
    \o When(servicename = "networking_api",
            <<Chown("key", 1456), Chown("crt", 1457)>>)
    \o <<Bind({"auth_env"}, 1459),
         Token("dcos_" \o servicename \o "_agent", 1460)>>
    \o When(servicename = "networking_api", <<Chown("auth_env", 1462)>>)

\* dcos_erlang_service: the role file of the node decides
dcos_erlang_service(servicename, config, master) ==
    IF master THEN dcos_erlang_service_master(servicename, config)
    ELSE dcos_erlang_service_agent(servicename, config)

dcos_cosmos_steps(config) ==
    <<Fill("create_master_secrets", 1467)>>
    \o When(config.zk_acls_enabled,
            <<ZkLookup("make_service_acl", "dcos_cosmos", 1468)>>)
    \o <<Bind({"key", "crt"}, 1470), Ensure({"key", "crt"}, "", 1472),
         Chown("key", 1473), Chown("crt", 1474)>>

dcos_secrets_steps(config) ==
    <<Fill("create_master_secrets", 1061)>>
    \o When(config.ssl_enabled,
            <<Bind({"keypath", "crtpath"}, 1065),
              Ensure({"keypath", "crtpath"}, "", 1067),
              Chown("keypath", 1068), Chown("crtpath", 1069)>>)

dcos_3dt_master_steps(config) ==
    <<Fill("create_master_secrets", 1522)>>
    \o AccountAndCredentials("dcos_3dt_master", 1524, 1526)
    \o <<Fill("create_agent_secrets", 1530),
         Lookup("create_service_account", "dcos_3dt_agent", 1531)>>

\* the master workflows that fill the secrets, register an account and write
\* its credentials: dcos_history, dcos_signal, dcos_log_master,
\* dcos_metrics_master
AccountWorkflow(uid, line1, line2, line3) ==
    <<Fill("create_master_secrets", line1)>>
    \o AccountAndCredentials(uid, line2, line3)

\* the bootstrappers table: the steps of the workflow of a service on a node
\* that has (master) or has not the role file of a master
bootstrappers(name, config, master) ==
    CASE name = "dcos-adminrouter" -> dcos_adminrouter_steps(config)
      [] name = "dcos-adminrouter-agent" -> dcos_adminrouter_agent_steps(config)
      [] name = "dcos-bouncer" -> <<Fill("create_master_secrets", 1048)>>
      [] name = "dcos-ca" -> <<Fill("create_master_secrets", 1107)>>
      [] name = "dcos-cosmos" -> dcos_cosmos_steps(config)
      [] name = "dcos-3dt-agent" ->
            <<Fill("read_3dt_agent_secrets", 1535),
              Lookup("write_service_account_credentials", "dcos_3dt_agent",
                     1537)>>
      [] name = "dcos-3dt-master" -> dcos_3dt_master_steps(config)
      [] name = "dcos-history" ->
            AccountWorkflow("dcos_history_service", 1542, 1544, 1547)
      [] name = "dcos-marathon" -> dcos_marathon_steps(config)
      [] name = "dcos-mesos-slave" ->
            dcos_mesos_slave_steps(config)
      [] name = "dcos-mesos-slave-public" ->
            dcos_mesos_slave_public_steps(config)
      [] name = "dcos-mesos-dns" -> dcos_mesos_dns_steps(config)
      [] name = "dcos-mesos-master" -> dcos_mesos_master_steps(config)
      [] name = "dcos-metronome" -> dcos_metronome_steps(config)
      [] name = "dcos-minuteman" ->
            dcos_erlang_service("minuteman", config, master)
      [] name = "dcos-navstar" ->
            dcos_erlang_service("navstar", config, master)
      [] name = "dcos-networking_api" ->
            dcos_erlang_service("networking_api", config, master)
      [] name = "dcos-secrets" -> dcos_secrets_steps(config)
      [] name = "dcos-signal" ->
            AccountWorkflow("dcos_signal_service", 1488, 1491, 1494)
      [] name = "dcos-spartan" -> dcos_spartan(config, master)
      [] name = "dcos-vault_default" -> <<Fill("create_master_secrets", 1084)>>
      [] name = "dcos-log-master" ->
            AccountWorkflow("dcos_log_master", 1559, 1561, 1563)
      [] name = "dcos-log-agent" ->
            <<Fill("read_dcos_log_secrets", 1568),
              Lookup("write_service_account_credentials", "dcos_log_agent",
                     1570)>>
      [] name = "dcos-metrics-agent" ->
            <<Fill("read_agent_secrets", 1511),
              Lookup("write_service_account_credentials",
                     "dcos_metrics_agent", 1516)>>
      [] name = "dcos-metrics-master" ->
            AccountWorkflow("dcos_metrics_master", 1500, 1503, 1506)

\* the keys of the bootstrappers table
Services ==
    {"dcos-adminrouter", "dcos-adminrouter-agent", "dcos-bouncer", "dcos-ca",
     "dcos-cosmos", "dcos-3dt-agent", "dcos-3dt-master", "dcos-history",
     "dcos-marathon", "dcos-mesos-slave", "dcos-mesos-slave-public",
     "dcos-mesos-dns", "dcos-mesos-master", "dcos-metronome",
     "dcos-minuteman", "dcos-navstar", "dcos-networking_api", "dcos-secrets",
     "dcos-signal", "dcos-spartan", "dcos-vault_default", "dcos-log-master",
     "dcos-log-agent", "dcos-metrics-agent", "dcos-metrics-master"}

\* the keys of self.secrets['services'] after a call that fills the secrets
Filled(fn, held, security) ==
    CASE fn = "create_master_secrets" ->
            held \cup Range(all_master_service_accounts(security))
      [] fn = "create_agent_secrets" -> held \cup Range(self_agent_services)
      [] fn = "read_agent_secrets" -> Range(self_agent_services)
      [] fn = "read_3dt_agent_secrets" -> {"dcos_3dt_agent"}
      [] fn = "read_dcos_log_secrets" -> {"dcos_log_agent"}

\* the keys of self.secrets['zk'] after a call that fills the secrets
ZkFilled(fn, zkheld, config) ==
    IF fn = "create_master_secrets" /\ config.zk_acls_enabled
    THEN zkheld \cup Range(all_service_account_zk_creds)
    ELSE zkheld

\* the functions that only read the store, and fail where nothing was written
Readers ==
    {"read_agent_secrets", "read_3dt_agent_secrets", "read_dcos_log_secrets"}

RoleInit ==
    /\ NoRuns /\ zk = <<>> /\ NoHost /\ NoCalc /\ NoIam /\ NoMat /\ NoFx
    /\ NoAcct
    /\ \E name \in Services, security \in Modes, master \in BOOLEAN :
           role = [name |-> name, security |-> security, master |-> master,
                   steps |-> bootstrappers(name, opts_config(security), master),
                   held |-> {}, zkheld |-> {}, bound |-> {}, ensured |-> {},
                   chowned |-> {},
                   looked |-> {}, tokens |-> {}, taken |-> <<>>,
                   pc |-> "run", exc |-> ""]

RoleUnchanged ==
    UNCHANGED <<zk, runvars, hostvars, calcvars, iamvars, matvars, fxvars,
                acctvars>>

\* the step the workflow takes next
NextStep == Head(role.steps)

AtStep(op) == role.pc = "run" /\ role.steps # <<>> /\ NextStep.op = op

\* the workflow goes on to its next step
Advance(r) == [r EXCEPT !.steps = Tail(@), !.taken = Append(@, NextStep)]

\* the workflow ends with an exception raised by its next step
Raise(exc) == [role EXCEPT !.pc = "failed", !.exc = exc]

\* create_master_secrets, create_agent_secrets, read_agent_secrets,
\* read_3dt_agent_secrets, read_dcos_log_secrets
RoleFill ==
    /\ AtStep("fill")
    /\ \/ role' = Advance([role EXCEPT
                     !.held = Filled(NextStep.by, @, role.security),
                     !.zkheld = ZkFilled(NextStep.by, @,
                                         opts_config(role.security))])
       \/ /\ NextStep.by \in Readers
          /\ role' = Raise("NoNodeError")
    /\ RoleUnchanged

\* self.secrets['services'][uid] in create_service_account and
\* write_service_account_credentials
RoleLookup ==
    /\ AtStep("lookup")
    /\ role' = IF NextStep.uid \in role.held
               THEN Advance([role EXCEPT
                        !.looked = @ \cup {<<NextStep.by, NextStep.uid>>}])
               ELSE Raise("KeyError")
    /\ RoleUnchanged

\* self.secrets['zk'][uid] in make_service_acl and in the functions that
\* write the environment of a service
RoleZkLookup ==
    /\ AtStep("zklookup")
    /\ role' = IF NextStep.uid \in role.zkheld
               THEN Advance([role EXCEPT
                        !.looked = @ \cup {<<NextStep.by, NextStep.uid>>}])
               ELSE Raise("KeyError")
    /\ RoleUnchanged

\* an assignment to local names
RoleBind ==
    /\ AtStep("bind")
    /\ role' = Advance([role EXCEPT !.bound = @ \cup NextStep.names])
    /\ RoleUnchanged

\* ensure_key_certificate: where the files are not a valid pair it issues a
\* new one, and logs in as the service account if one is given
RoleEnsure ==
    /\ AtStep("ensure")
    /\ \E valid \in BOOLEAN :
          role' =
              IF ~(NextStep.names \subseteq role.bound)
              THEN Raise("UnboundLocalError")
              ELSE IF valid \/ NextStep.uid = ""
              THEN Advance([role EXCEPT !.ensured = @ \cup NextStep.names])
              ELSE IF NextStep.uid \in role.held
              THEN Advance([role EXCEPT
                       !.ensured = @ \cup NextStep.names,
                       !.looked = @ \cup {<<"service_auth_token",
                                            NextStep.uid>>}])
              ELSE Raise("KeyError")
    /\ RoleUnchanged

\* shutil.chown of the file a local name stands for
RoleChown ==
    /\ AtStep("chown")
    /\ role' = IF NextStep.names \subseteq role.bound
               THEN Advance([role EXCEPT !.chowned = @ \cup NextStep.names])
               ELSE Raise("UnboundLocalError")
    /\ RoleUnchanged

\* write_service_auth_token
RoleToken ==
    /\ AtStep("token")
    /\ role' = IF NextStep.uid \in role.held
               THEN Advance([role EXCEPT
                        !.looked = @ \cup {<<"service_auth_token",
                                             NextStep.uid>>},
                        !.tokens = @ \cup {NextStep.uid}])
               ELSE Raise("KeyError")
    /\ RoleUnchanged

\* the workflow returns
RoleReturn ==
    /\ role.pc = "run" /\ role.steps = <<>>
    /\ role' = [role EXCEPT !.pc = "done"]
    /\ RoleUnchanged

RoleNext ==
    \/ RoleFill
    \/ RoleLookup
    \/ RoleZkLookup
    \/ RoleBind
    \/ RoleEnsure
    \/ RoleChown
    \/ RoleToken
    \/ RoleReturn

RoleSpec == RoleInit /\ [][RoleNext]_vars

----------------------------------------------------------------------------
(* The registration of one service account.  Every master proposes a       *)
(* credential of its own for the account (create_master_secrets for a      *)
(* master account, create_agent_secrets for an agent account), takes the   *)
(* one the store holds, and registers its public key with the identity     *)
(* service (create_service_account).  The nodes that use the account log   *)
(* in with the private key they hold (service_auth_token): a master with   *)
(* the one of its secrets, an agent with the one it reads from the store   *)
(* (read_agent_secrets).                                                   *)

\* the agent node
Agent == NumMasters + 1

Nodes == Masters \cup {Agent}

\* a master account and an agent account, and where their credential is
AccountUids == {"dcos_adminrouter", "dcos_adminrouter_agent"}

AccountPath(uid) ==
    IF uid = "dcos_adminrouter" THEN MasterSecretsPath \o <<"services", uid>>
    ELSE AgentSecretPath(uid)

\* the node logs in as the account: the masters as a master account, the
\* agent as an agent account
LogsIn(n, uid) == (n = Agent) = (uid = "dcos_adminrouter_agent")

\* iam: the identity service checks the login against the public key it has
\* registered for the account
service_account_login(registered, uid, private_key) ==
    IF uid \notin DOMAIN registered THEN "unknown"
    ELSE IF registered[uid].public_key = public_key_pem(private_key) THEN "token"
    ELSE "denied"

AcctInit ==
    /\ NoRuns /\ NoHost /\ NoCalc /\ NoIam /\ NoMat /\ NoFx /\ NoRole
    /\ zk = EmptyStore
    /\ \E uid \in AccountUids :
           acct = [uid |-> uid,
                   pc |-> [n \in Nodes |-> IF n \in Masters THEN "create"
                                           ELSE "sync"],
                   account |-> [n \in Nodes |-> EmptyDict],
                   submitted |-> [n \in Masters |-> ""],
                   registered |-> <<>>,
                   login |-> [n \in Nodes |-> ""]]

AcctUnchanged ==
    UNCHANGED <<runvars, hostvars, calcvars, iamvars, matvars, fxvars, rolevars>>

\* _consensus of a master: self.zk.create(path, value), NodeExistsError passed
AcctCreate(p) ==
    /\ p \in Masters /\ acct.pc[p] = "create"
    /\ zk' = consensus_create(zk, AccountPath(acct.uid),
                              json_dumps(ServiceCred(acct.uid, p)), <<>>, p)
    /\ acct' = [acct EXCEPT !.pc[p] = "sync"]
    /\ AcctUnchanged

\* _consensus: self.zk.sync(path)
AcctSync(n) ==
    /\ acct.pc[n] = "sync"
    /\ acct' = [acct EXCEPT !.pc[n] = "get"]
    /\ UNCHANGED zk
    /\ AcctUnchanged

\* _consensus: self.zk.get(path)[0], and the json.loads of its caller; the
\* agent finds no node if no master has created it
AcctGet(n) ==
    /\ acct.pc[n] = "get"
    /\ acct' =
         IF AccountPath(acct.uid) \notin DOMAIN zk
         THEN [acct EXCEPT !.pc[n] = "failed"]
         ELSE [acct EXCEPT
                 !.account[n] = json_loads(zk[AccountPath(acct.uid)].value),
                 !.pc[n] = IF n \in Masters THEN "register"
                           ELSE IF LogsIn(n, acct.uid) THEN "login"
                           ELSE "done"]
    /\ UNCHANGED zk
    /\ AcctUnchanged

\* create_service_account(uid, superuser) with the account of the secrets:
\* the public key of its private key is submitted; exist_ok, an account that
\* exists is left as it is
AcctRegister(p) ==
    /\ p \in Masters /\ acct.pc[p] = "register"
    /\ LET pubkey_pem == public_key_pem(acct.account[p].kv["private_key"].s)
       IN  acct' = [acct EXCEPT
                      !.submitted[p] = pubkey_pem,
                      !.registered =
                          IF acct.uid \in DOMAIN @ THEN @
                          ELSE (acct.uid :> [public_key |-> pubkey_pem,
                                             by |-> p]) @@ @,
                      !.pc[p] = IF LogsIn(p, acct.uid) THEN "login"
                                ELSE "done"]
    /\ UNCHANGED zk
    /\ AcctUnchanged

\* service_auth_token(uid): the login with the private key of the secrets
AcctLogin(n) ==
    /\ acct.pc[n] = "login"
    /\ acct' = [acct EXCEPT
                  !.login[n] =
                      service_account_login(acct.registered, acct.uid,
                          acct.account[n].kv["private_key"].s),
                  !.pc[n] = "done"]
    /\ UNCHANGED zk
    /\ AcctUnchanged

AcctNext ==
    \E n \in Nodes :
        \/ AcctCreate(n)
        \/ AcctSync(n)
        \/ AcctGet(n)
        \/ AcctRegister(n)
        \/ AcctLogin(n)

AcctSpec == AcctInit /\ [][AcctNext]_vars

----------------------------------------------------------------------------
(* Consensus primitive *)

\* the call in progress (or last call) of a run reaches _consensus without
\* a value to propose
ReaderOnly(f) ==
    \/ f.fn \in {"read_agent_secrets", "read_3dt_agent_secrets",
                 "read_dcos_log_secrets"}
    \/ f.fn \in {"cluster_id", "write_CA_certificate"} /\ ~f.proposed.some

\* the step is taken by run p
StepOf(p) == frame'[p] # frame[p] \/ pc'[p] # pc[p]

\* C1: Agreement.  Whatever runs call _consensus on one path, all the values
\* returned for that path are the same, and that value is the one proposed
\* by the one run whose create the store applied (one create per path).
C1_Agreement ==
    /\ \A p, q \in Runs : \A g \in hist[p].got : \A h \in hist[q].got :
          g[1] = h[1] => g[2] = h[2]
    /\ \A p \in Runs : \A g \in hist[p].got :
          /\ g[1] \in DOMAIN zk
          /\ zk[g[1]].by \in Runs
          /\ zk[g[1]].creates = 1
          /\ g \in hist[zk[g[1]].by].proposals

\* two runs have proposed different values for one path and both have got
\* a value back for it
C1_Witness ==
    \E p, q \in Procs : \E a \in hist[p].proposals : \E b \in hist[q].proposals :
        /\ p # q /\ a[1] = b[1] /\ a[2] # b[2]
        /\ \E g \in hist[p].got : g[1] = a[1]
        /\ \E h \in hist[q].got : h[1] = a[1]

\* C2: First writer wins.  A run whose create found the path taken by an
\* earlier create does not abort; it and the earlier writer both get the
\* earlier writer's value, which is the value of the create the store
\* applied (a run of Procs proposes once for a path, the earlier boot once
\* in each workflow).  Only a _consensus without a proposal can raise.
C2_FirstWriterWins ==
    /\ \A p \in Runs : pc[p] = "failed" => ReaderOnly(frame[p])
    /\ \A p \in Runs : \A a \in hist[p].proposals :
          /\ a[1] \in DOMAIN zk
          /\ zk[a[1]].by \in Runs
          /\ <<a[1], zk[a[1]].value>> \in hist[zk[a[1]].by].proposals
          /\ zk[a[1]].by = p /\ p \in Procs => zk[a[1]].value = a[2]
          /\ \A q \in {p, zk[a[1]].by} : \A g \in hist[q].got :
                g[1] = a[1] => /\ g[2] = zk[a[1]].value
                               /\ g \in hist[zk[a[1]].by].proposals

\* a run that lost the race for /cluster-id has completed its workflow with
\* the winner's value, and the winner has read its own value back
C2_Witness ==
    \E p, q \in Procs : \E a \in hist[p].proposals :
        /\ a[1] = ClusterIdPath
        /\ zk[ClusterIdPath].by = q /\ q # p
        /\ pc[p] = "done" /\ frame[p].fn = "cluster_id"
        /\ frame[p].val = zk[ClusterIdPath].value
        /\ frame[p].val # a[2]
        /\ <<ClusterIdPath, zk[ClusterIdPath].value>> \in hist[q].got

\* C3: Write-once records.  A value created at a consensus path is never
\* changed and the path is never deleted; every value any run has read from
\* a path is the value the path holds.
C3_WriteOnce ==
    [][ /\ \A path \in DOMAIN zk :
              zk[path].by # 0 =>
                  /\ path \in DOMAIN zk'
                  /\ zk'[path].value = zk[path].value
                  /\ zk'[path].by = zk[path].by
        /\ \A p \in Runs : \A g \in hist'[p].got :
              g[1] \in DOMAIN zk' /\ zk'[g[1]].value = g[2] ]_vars

\* a master secret created by one run has been read by two runs, one of
\* which had proposed another value for it
C3_Witness ==
    \E p, q \in Procs : \E g \in hist[p].got :
        /\ p # q
        /\ Len(g[1]) > 3 /\ SubSeq(g[1], 1, 3) = MasterSecretsPath
        /\ g \in hist[q].got
        /\ zk[g[1]].by = p
        /\ \E b \in hist[q].proposals : b[1] = g[1] /\ b[2] # g[2]

\* C4: Reader-only role.  A _consensus without a proposal changes nothing in
\* the store and sends no create; what it returns was stored by a writer.
C4_ReaderOnly ==
    [][ \A p \in Runs :
          pc[p] = "run" /\ ReaderOnly(frame[p]) /\ StepOf(p) =>
              /\ zk' = zk
              /\ frame'[p].attempts = 0
              /\ hist'[p].proposals = hist[p].proposals
              /\ \A g \in hist'[p].got \ hist[p].got :
                    /\ zk[g[1]].by \in Runs \ {p}
                    /\ zk[g[1]].value = g[2]
                    /\ g \in hist[zk[g[1]].by].proposals ]_vars

\* one agent has completed cluster_id(readonly=True) with the id stored by
\* the earlier boot, another write_CA_certificate with the stored certificate
C4_Witness ==
    \E p, q \in Procs :
        /\ pc[p] = "done" /\ ReaderOnly(frame[p])
        /\ frame[p].fn = "cluster_id"
        /\ frame[p].val = zk[ClusterIdPath].value
        /\ zk[ClusterIdPath].by = Earlier
        /\ pc[q] = "done" /\ ReaderOnly(frame[q])
        /\ frame[q].fn = "write_CA_certificate"
        /\ frame[q].val = zk[RootCAPath].value

----------------------------------------------------------------------------
(* Materialization of secrets *)

CreateFns == {"create_master_secrets", "create_agent_secrets"}

BasePath(fn) ==
    IF fn = "create_master_secrets" THEN MasterSecretsPath ELSE AgentSecretsPath

\* the tree a run proposes in a call of create_master_secrets or
\* create_agent_secrets
ProposedTree(fn, seed) ==
    IF fn = "create_master_secrets" THEN MasterSecrets(opts, seed)
    ELSE AgentSecrets(seed)

\* a leaf: a mapping none of whose direct values is a mapping
LeafNode(v) == v.isdict /\ ~\E k \in DOMAIN v.kv : v.kv[k].isdict

\* the key paths of the leaves below the root of a tree
RECURSIVE LeafPaths(_)
LeafPaths(tree) ==
    UNION {IF LeafNode(tree.kv[k]) THEN {<<k>>}
           ELSE {<<k>> \o ks : ks \in LeafPaths(tree.kv[k])} :
           k \in {j \in DOMAIN tree.kv : tree.kv[j].isdict}}

\* run p has returned from a call of fn and has made no call since
ReturnedFrom(p, fn) == pc[p] \in {"idle", "done"} /\ frame[p].fn = fn

\* C5: when _create_secrets has returned, every leaf the run holds is the
\* deserialized content stored at the leaf's path, and all runs that have
\* materialized the same base path have returned identical trees.
C5_HeldIsStored ==
    /\ \A p \in Runs : \A fn \in CreateFns :
          ReturnedFrom(p, fn) =>
              /\ LeafPaths(frame[p].ret) = LeafPaths(ProposedTree(fn, Seed(p)))
              /\ \A ks \in LeafPaths(frame[p].ret) :
                    /\ BasePath(fn) \o ks \in DOMAIN zk
                    /\ TreeGet(frame[p].ret, ks)
                           = json_loads(zk[BasePath(fn) \o ks].value)
    /\ \A p, q \in Runs : \A a \in hist[p].rets : \A b \in hist[q].rets :
          a[1] \in CreateFns /\ a[1] = b[1] => a[2] = b[2]

\* two masters have returned from create_master_secrets with the same tree,
\* which is not the tree either of them proposed
C5_Witness ==
    \E p, q \in Procs :
        /\ p # q
        /\ ReturnedFrom(p, "create_master_secrets")
        /\ ReturnedFrom(q, "create_master_secrets")
        /\ frame[p].ret = frame[q].ret
        /\ frame[p].ret # MasterSecrets(opts, Seed(p))
        /\ frame[q].ret # MasterSecrets(opts, Seed(q))

\* path lies below base
Below(base, path) ==
    Len(path) > Len(base) /\ SubSeq(path, 1, Len(base)) = base

\* C6: Leaf placement.  The consensus records below a base path are at the
\* paths of the leaves of the tree, the empty mapping included; the nodes of
\* inner mappings hold no consensus record.  A run that found none of the
\* leaves stored has stored the serialized JSON of each leaf of its tree and
\* returns that tree.
C6_LeafPlacement ==
    \A fn \in CreateFns :
        /\ \A path \in DOMAIN zk :
              Below(BasePath(fn), path) /\ zk[path].by # 0 =>
                  \E ks \in LeafPaths(ProposedTree(fn, Seed(zk[path].by))) :
                      path = BasePath(fn) \o ks
        /\ \A p \in Procs :
              ReturnedFrom(p, fn) =>
                  LET tree == ProposedTree(fn, Seed(p))
                      stored(ks) == zk[BasePath(fn) \o ks]
                  IN  /\ \A ks \in LeafPaths(tree) :
                            /\ BasePath(fn) \o ks \in DOMAIN zk
                            /\ stored(ks).by # 0
                            /\ stored(ks).creates = 1
                            /\ stored(ks).by = p =>
                                   stored(ks).value = json_dumps(TreeGet(tree, ks))
                      /\ (\A ks \in LeafPaths(tree) : stored(ks).by = p) =>
                             frame[p].ret = tree

\* with ACLs disabled a master that found an empty store has returned from
\* create_master_secrets: every leaf is its own, the empty mapping 'zk' is
\* stored as the bytes of the empty object, and the node of the inner
\* mapping 'services' holds no consensus record
C6_Witness ==
    \E p \in Procs :
        /\ ReturnedFrom(p, "create_master_secrets")
        /\ hist[Earlier] = NoHist
        /\ \A ks \in LeafPaths(MasterSecrets(opts, Seed(p))) :
              zk[MasterSecretsPath \o ks].by = p
        /\ <<"zk">> \in LeafPaths(MasterSecrets(opts, Seed(p)))
        /\ zk[MasterSecretsPath \o <<"zk">>].value = <<"{", "}">>
        /\ zk[MasterSecretsPath \o <<"services">>].by = 0
        /\ frame[p].ret = MasterSecrets(opts, Seed(p))

\* run p takes a step of a call of _create_secrets that found every leaf of
\* its tree stored when it began
RerunStep(p) ==
    /\ pc[p] = "run" /\ frame[p].fn \in CreateFns /\ frame[p].rerun
    /\ StepOf(p)

\* the step adds no node and changes no stored value
StoreKept ==
    /\ DOMAIN zk' = DOMAIN zk
    /\ \A path \in DOMAIN zk :
          /\ zk'[path].value = zk[path].value
          /\ zk'[path].by = zk[path].by
          /\ zk'[path].creates = zk[path].creates

\* if the step returns from the call, the tree returned is the tree every
\* earlier call returned, and it serializes to the bytes stored
SameResults(p) ==
    pc'[p] \in {"idle", "done"} =>
        /\ \A q \in Runs : \A r \in hist[q].rets :
              r[1] = frame[p].fn => r[2] = frame'[p].ret
        /\ \A ks \in LeafPaths(frame'[p].ret) :
              json_dumps(TreeGet(frame'[p].ret, ks))
                  = zk[BasePath(frame[p].fn) \o ks].value

\* C7, as stated: re-running _create_secrets on a fully materialized tree
\* returns identical results, changes no stored value and sends no create.
C7_NoCreateSent ==
    [][ \A p \in Runs :
          RerunStep(p) =>
              StoreKept /\ SameResults(p) /\ frame'[p].attempts = 0 ]_vars

\* C7, amended: re-running _create_secrets on a fully materialized tree
\* returns identical results and changes no stored value; a create is sent
\* again for every leaf, and the store applies none of them.
C7_Idempotence ==
    [][ \A p \in Runs :
          RerunStep(p) =>
              /\ StoreKept
              /\ SameResults(p)
              /\ Cmd(p).op = "create" =>
                     /\ Cmd(p).path \in DOMAIN zk
                     /\ frame'[p].attempts = frame[p].attempts + 1
              /\ pc'[p] \in {"idle", "done"} =>
                     frame'[p].attempts = Cardinality(LeafPaths(frame'[p].ret)) ]_vars

\* a master has returned from create_master_secrets on a store that held
\* every leaf: it has sent a create for every leaf, and holds the stored
\* tree rather than its own
C7_Witness ==
    \E p \in Procs :
        /\ ReturnedFrom(p, "create_master_secrets")
        /\ frame[p].rerun
        /\ frame[p].attempts = Cardinality(LeafPaths(frame[p].ret))
        /\ frame[p].attempts > 0
        /\ frame[p].ret # MasterSecrets(opts, Seed(p))
        /\ \A ks \in LeafPaths(frame[p].ret) :
              zk[MasterSecretsPath \o ks].by # p

\* C8: Deep merge.  When create_agent_secrets has returned in a run that had
\* called create_master_secrets, self.secrets holds the master entries under
\* 'zk', 'CA', 'private_keys' and 'services' as create_master_secrets
\* returned them, and the agent service entries create_agent_secrets
\* returned, and nothing else.
C8_DeepMerge ==
    \A p \in Runs :
        ReturnedFrom(p, "create_agent_secrets") =>
            \A m \in hist[p].rets :
                m[1] = "create_master_secrets" =>
                    LET master == m[2].kv
                        agent == frame[p].ret.kv
                        held == secrets[p].kv
                    IN  /\ DOMAIN held = DOMAIN master
                        /\ \A k \in DOMAIN master \ {"services"} :
                              held[k] = master[k]
                        /\ DOMAIN held["services"].kv
                               = DOMAIN master["services"].kv
                                     \cup DOMAIN agent["services"].kv
                        /\ \A a \in DOMAIN master["services"].kv :
                              held["services"].kv[a] = master["services"].kv[a]
                        /\ \A a \in DOMAIN agent["services"].kv :
                              held["services"].kv[a] = agent["services"].kv[a]

\* a master has returned from create_agent_secrets after
\* create_master_secrets: self.secrets holds a master service account and an
\* agent service account side by side
C8_Witness ==
    \E p \in Procs :
        /\ ReturnedFrom(p, "create_agent_secrets")
        /\ \E m \in hist[p].rets : m[1] = "create_master_secrets"
        /\ {"zk", "CA", "private_keys", "services"} \subseteq DOMAIN secrets[p].kv
        /\ {"dcos_adminrouter", "dcos_3dt_agent"}
               \subseteq DOMAIN secrets[p].kv["services"].kv

----------------------------------------------------------------------------
(* ACL policy *)

\* the commands run p has still to send in the call in progress
Pending(p) ==
    IF pc[p] = "run" THEN {frame[p].ops[i] : i \in DOMAIN frame[p].ops} ELSE {}

WriteOps == {"create", "ensure_zk_path", "set_acls"}

\* the paths _consensus is called on with the literal ANYONE_READ
WorldReadablePaths == {ClusterIdPath, RootCAPath}

CredentialPath(service) == MasterSecretsPath \o <<"zk", service>>

\* the digest entry with all permissions of a credential
DigestAll(cred) ==
    make_digest_acl(cred.kv["username"].s, cred.kv["password"].s, PermAll)

\* C10: with ACLs enabled, the ACL a per-service function applies to its
\* service-owned path contains the localhost-all entry and the digest entry,
\* with all permissions, of the credential stored for the service at
\* /dcos/master/secrets/zk/<service>; each of the eight functions builds
\* its list that way from the agreed credential.
C10_ServiceAcl ==
    opts.zk_acls_enabled =>
        /\ \A p \in Runs : \A c \in Pending(p) :
              frame[p].fn \in DOMAIN ServiceAclFns =>
                  LET f == ServiceAclFns[frame[p].fn]
                  IN  /\ c.op = "ensure_zk_path" /\ c.path = f.path
                      /\ CredentialPath(f.service) \in DOMAIN zk
                      /\ LOCALHOST_ALL[1] \in Range(c.acl)
                      /\ DigestAll(json_loads(zk[CredentialPath(f.service)].value))
                             \in Range(c.acl)
        /\ \A fn \in DOMAIN ServiceAclFns :
              CredentialPath("dcos_cosmos") \in DOMAIN zk =>
                  LET agreed == json_loads(zk[CredentialPath("dcos_cosmos")].value)
                      sec == Dict("zk" :> Dict(ServiceAclFns[fn].service :> agreed))
                  IN  {LOCALHOST_ALL[1], DigestAll(agreed)}
                          \subseteq Range(ServiceAcl(opts, sec, fn))

\* a run that lost the race for the credential of dcos_cosmos is about to
\* apply the ACL of cosmos_acls to /cosmos
C10_Witness ==
    \E p \in Procs :
        /\ opts.zk_acls_enabled
        /\ pc[p] = "run" /\ frame[p].fn = "cosmos_acls"
        /\ Cmd(p).op = "ensure_zk_path" /\ Cmd(p).path = <<"cosmos">>
        /\ zk[CredentialPath("dcos_cosmos")].by \in Procs \ {p}
        /\ DigestAll(json_loads(zk[CredentialPath("dcos_cosmos")].value))
               \in Range(Cmd(p).acl)

\* the entries of an ACL list whose principal is world:anyone
AnyoneEntries(acl) == {e \in Range(acl) : e.scheme = "world" /\ e.id = <<"anyone">>}

\* C11: in strict mode the ACL list a per-service function applies to its
\* service-owned path includes the localhost entry and has no entry for
\* the principal 'anyone'; so has the list each of the eight functions builds
\* from the agreed credential.
C11_StrictNoAnyone ==
    opts.security = "strict" =>
        /\ \A p \in Runs : \A c \in Pending(p) :
              frame[p].fn \in DOMAIN ServiceAclFns =>
                  /\ LOCALHOST_ALL[1] \in Range(c.acl)
                  /\ AnyoneEntries(c.acl) = {}
        /\ \A fn \in DOMAIN ServiceAclFns :
              CredentialPath("dcos_cosmos") \in DOMAIN zk =>
                  LET agreed == json_loads(zk[CredentialPath("dcos_cosmos")].value)
                      sec == Dict("zk" :> Dict(ServiceAclFns[fn].service :> agreed))
                  IN  /\ LOCALHOST_ALL[1] \in Range(ServiceAcl(opts, sec, fn))
                      /\ AnyoneEntries(ServiceAcl(opts, sec, fn)) = {}

----------------------------------------------------------------------------
(* Certificate issuance *)

\* process p of the host takes the step
HostStepOf(p) == hloc'[p] # hloc[p] \/ hpc'[p] # hpc[p]

Ensuring(p) == hloc[p].call.fn = "ensure_key_certificate"

\* the calls process p has made to the identity service and the authority
NetCallsOf(p) == SelectSeq(net, LAMBDA c : c.by = p)

\* both files exist and hold their markers
PairValid(files) ==
    /\ KeyFile \in DOMAIN files /\ CrtFile \in DOMAIN files
    /\ Contains(files[CrtFile].data, "BEGIN CERTIFICATE")
    /\ Contains(files[KeyFile].data, "PRIVATE KEY")

\* C12: _key_cert_is_valid returns true if and only if both files exist,
\* the certificate file holds the certificate marker and the key file the
\* private-key marker; in every other case it returns false and does not
\* raise.
C12_ValidIff ==
    [][ \A p \in HostProcs :
          Doing(p, "check") /\ HostStepOf(p) =>
              /\ hpc'[p] # "failed"
              /\ hloc'[p].cert \in {"Valid", "Invalid"}
              /\ hloc'[p].cert = "Valid" <=> PairValid(fs) ]_vars

\* a process has found a marked certificate with a key file that lacks the
\* marker, and goes on to issue a certificate
C12_Witness ==
    \E p \in HostProcs :
        /\ hpc[p] = "run"
        /\ hloc[p].cert = "Invalid" /\ hloc[p].ops = IssueOps(hloc[p].call)
        /\ CrtFile \in DOMAIN fs
        /\ Contains(fs[CrtFile].data, "BEGIN CERTIFICATE")
        /\ KeyFile \in DOMAIN fs
        /\ ~Contains(fs[KeyFile].data, "PRIVATE KEY")

\* C13: an ensure_key_certificate that finds the pair valid returns at once:
\* it calls neither the identity service nor the authority, and it creates,
\* truncates and writes no file.
C13_ValidNoEffect ==
    [][ \A p \in HostProcs :
          Ensuring(p) /\ HostStepOf(p) /\ hloc'[p].cert = "Valid" =>
              /\ hpc'[p] = "done"
              /\ fs' = fs /\ net' = net /\ lock' = lock /\ zk' = zk
              /\ NetCallsOf(p) = <<>>
              /\ hloc'[p].opened = <<>> /\ hloc'[p].wrote = <<>> ]_vars

\* one process has issued a certificate; the other has called
\* ensure_key_certificate after that, found the pair valid and returned
\* without any call on the network
C13_Witness ==
    \E p, q \in HostProcs :
        /\ p # q
        /\ hpc[p] = "done" /\ hloc[p].cert = "Issued"
        /\ hpc[q] = "done" /\ hloc[q].cert = "Valid"
        /\ NetCallsOf(p) # <<>> /\ NetCallsOf(q) = <<>>
        /\ fs[CrtFile].data = hloc[p].crt

\* what process p has done when its create_key_certificate has returned
Issuance(p) ==
    LET l == hloc[p]
        calls == NetCallsOf(p)
        login == NetCall(p, "iam", "")
    IN  /\ Contains(l.privkey_pem, "PRIVATE KEY")
        /\ Contains(l.csr_pem, "CERTIFICATE REQUEST")
        /\ IF l.call.service_account # ""
           THEN calls = <<login, NetCall(p, "ca", l.token)>> /\ l.token # ""
           ELSE calls = <<NetCall(p, "ca", "")>>
        /\ l.crt = <<"BEGIN CERTIFICATE", l.csr_pem[2]>>
        /\ l.opened = <<KeyFile, CrtFile>>
        /\ l.wrote = <<<<KeyFile, l.privkey_pem>>, <<CrtFile, l.crt>>>>

\* C14: the states of a certificate are Unchecked -> {Valid, Invalid} ->
\* [Invalid -> Issued]: the check of ensure_key_certificate never fails and
\* an Invalid pair starts an issuance; an issuance generates a key and a
\* request, logs in first if and only if a service account is given, has
\* the request signed and writes the key and the certificate; an
\* ensure_key_certificate that returns ends in Valid or Issued.
C14_CertificateStates ==
    [][ \A p \in HostProcs :
          Ensuring(p) /\ HostStepOf(p) =>
              /\ <<hloc[p].cert, hloc'[p].cert>> \in
                    {<<"Unchecked", "Unchecked">>, <<"Unchecked", "Valid">>,
                     <<"Unchecked", "Invalid">>, <<"Invalid", "Invalid">>,
                     <<"Invalid", "Issued">>}
              /\ Doing(p, "check") =>
                    /\ hpc'[p] # "failed"
                    /\ hloc'[p].cert # "Unchecked"
                    /\ hloc'[p].cert = "Invalid" =>
                          hpc'[p] = "run" /\ Head(hloc'[p].ops).op = "generate"
              /\ hpc'[p] = "done" => hloc'[p].cert \in {"Valid", "Issued"}
              /\ hloc'[p].cert = "Issued" =>
                    /\ hpc'[p] = "done"
                    /\ Issuance(p)'
                    /\ fs'[CrtFile].data = hloc'[p].crt ]_vars

\* one process has issued a certificate with a service account, the other
\* without, each from a pair that was not valid
C14_Witness ==
    \E p, q \in HostProcs :
        /\ hpc[p] = "done" /\ hloc[p].cert = "Issued"
        /\ hloc[p].call.service_account # ""
        /\ hpc[q] = "done" /\ hloc[q].cert = "Issued"
        /\ hloc[q].call.service_account = ""
        /\ Len(net) = 3

\* C15: after ensure_key_certificate has issued a certificate, the key file
\* it wrote has mode 0600, whatever the call site and whether or not there
\* was a file at the key path before.
C15_KeyOwnerOnly ==
    \A p \in HostProcs :
        Ensuring(p) /\ hloc[p].cert = "Issued" => fs[KeyFile].mode = "600"

\* C16: a login or a signing that fails ends ensure_key_certificate with
\* the exception (the call never returns), and the call has neither created
\* nor modified the key file or the certificate file.
C16_FailureWritesNothing ==
    [][ \A p \in HostProcs :
          Ensuring(p) =>
              /\ hpc[p] = "failed" => hpc'[p] = "failed" /\ hloc'[p] = hloc[p]
              /\ /\ HostStepOf(p)
                 /\ \/ Doing(p, "login") /\ hloc'[p].token = ""
                    \/ Doing(p, "sign") /\ hloc'[p].crt = <<>>
                 => /\ hpc'[p] = "failed"
                    /\ fs' = fs
                    /\ hloc'[p].opened = <<>> /\ hloc'[p].wrote = <<>> ]_vars

\* the login of a process has succeeded and its signing has failed, with no
\* file on the disk
C16_Witness ==
    \E p \in HostProcs :
        /\ Ensuring(p) /\ hpc[p] = "failed"
        /\ hloc[p].token # ""
        /\ NetCallsOf(p) = <<NetCall(p, "iam", ""), NetCall(p, "ca", hloc[p].token)>>
        /\ KeyFile \notin DOMAIN fs /\ CrtFile \notin DOMAIN fs

(* The lock on the directory *)

\* process p is between the opening of a file of the directory and the end
\* of its writing: the write and the rename of the temp file in cluster_id,
\* the write of the truncated file in _write_file
InSection(p, dir) ==
    /\ hpc[p] = "run"
    /\ HCmd(p).op \in {"write", "rename"}
    /\ dirname(HCmd(p).file) = dir

\* C17: the sections of two processes of the host on the same directory
\* (temp file opened to temp file renamed in cluster_id, file opened to file
\* written in _write_file) never overlap: the process in a section holds
\* the lock of the directory, and at most one process holds it.
C17_MutualExclusion ==
    \A dir \in Dirs :
        /\ Cardinality(lock[dir]) <= 1
        /\ \A p \in HostProcs : InSection(p, dir) => lock[dir] = {p}
        /\ \A p, q \in HostProcs :
              InSection(p, dir) /\ InSection(q, dir) => p = q

\* one process has opened the temp file of the cluster id while the other
\* waits for the lock on the same directory
C17_Witness ==
    \E p, q \in HostProcs :
        /\ p # q
        /\ InSection(p, dirname(ClusterIdFile))
        /\ TmpFile(ClusterIdFile) \in DOMAIN fs
        /\ Doing(q, "lock") /\ dirname(HCmd(q).file) = dirname(ClusterIdFile)

\* one process has truncated the key file while the other waits for the
\* lock on its directory
WriteFileContended ==
    \E p, q \in HostProcs :
        /\ p # q
        /\ InSection(p, dirname(KeyFile)) /\ fs[KeyFile].data = <<>>
        /\ Doing(q, "lock") /\ dirname(HCmd(q).file) = dirname(KeyFile)

(* The file of the cluster id *)

\* the id stored at /cluster-id
StoredId == decode(zk[ClusterIdPath].value)

\* the file of the cluster id holds a whole line
WholeLine(files) ==
    ClusterIdFile \in DOMAIN files =>
        Len(files[ClusterIdFile].data) = 2 /\ files[ClusterIdFile].data[2] = "\n"

\* C18: when cluster_id returns, readonly or not, the file of the cluster id
\* holds the value stored at /cluster-id; the file changes only by the
\* rename of a temp file that holds the whole line, and always holds a whole
\* line; a call that finds the stored value in the file opens, writes and
\* renames nothing; a call that finds another value or no file writes the
\* stored value; the value stored at /cluster-id never changes.
C18_ClusterIdMirror ==
    [][ /\ WholeLine(fs) /\ WholeLine(fs')
        /\ ClusterIdPath \in DOMAIN zk =>
              ClusterIdPath \in DOMAIN zk' /\ zk'[ClusterIdPath] = zk[ClusterIdPath]
        /\ \A p \in HostProcs :
              ~Ensuring(p) /\ HostStepOf(p) =>
                  /\ hpc'[p] = "done" =>
                        /\ ClusterIdFile \in DOMAIN fs'
                        /\ read_file_line(fs', ClusterIdFile) = StoredId'
                        /\ hloc'[p].zkid = StoredId'
                  /\ Doing(p, "compare") =>
                        LET same == /\ ClusterIdFile \in DOMAIN fs
                                    /\ read_file_line(fs, ClusterIdFile) = StoredId
                        IN  IF same
                            THEN hloc'[p].ops = <<HOp("unlock", ClusterIdFile, <<>>, "")>>
                            ELSE /\ Len(hloc'[p].ops) = 4
                                 /\ hloc'[p].ops[2].data = <<StoredId, "\n">>
                                 /\ hloc'[p].ops[3].op = "rename"
                  /\ ( \/ ClusterIdFile \in DOMAIN fs' /\ ClusterIdFile \notin DOMAIN fs
                       \/ /\ ClusterIdFile \in DOMAIN fs' /\ ClusterIdFile \in DOMAIN fs
                          /\ fs'[ClusterIdFile] # fs[ClusterIdFile] )
                     => /\ Doing(p, "rename")
                        /\ fs[TmpFile(ClusterIdFile)].data = <<StoredId, "\n">>
                        /\ fs'[ClusterIdFile].data = <<StoredId, "\n">>
                        /\ TmpFile(ClusterIdFile) \notin DOMAIN fs'
        /\ (ClusterIdFile \in DOMAIN fs => ClusterIdFile \in DOMAIN fs') ]_vars

\* both processes have returned from cluster_id with the id another node
\* had stored: the first has replaced the file, the second has found the id
\* in the file and written nothing
C18_Witness ==
    \E p, q \in HostProcs :
        /\ p # q /\ ~Ensuring(p) /\ ~Ensuring(q)
        /\ hpc[p] = "done" /\ hpc[q] = "done"
        /\ zk[ClusterIdPath].by = OtherNode
        /\ hloc[p].wrote = <<<<TmpFile(ClusterIdFile), <<StoredId, "\n">>>>>>
        /\ hloc[q].opened = <<>> /\ hloc[q].wrote = <<>>
        /\ hloc[q].call.readonly
        /\ read_file_line(fs, ClusterIdFile) = StoredId

(* Workflows invoked again *)

\* run p runs a workflow that has been invoked again
Rerun(p) == p \in Procs /\ boots[p] > 0

\* what the runs hold and have returned, with workflows invoked again
RestartedHolds ==
    /\ \A p \in Procs :
          Rerun(p) =>
              /\ secrets[p] = EmptyDict \/ pos[p] > 0
              /\ \A fn \in CreateFns :
                    /\ pc[p] = "run" /\ frame[p].fn = fn /\ frame[p].attempts = 0 =>
                          /\ frame[p].tree = ProposedTree(fn, Seed(p))
                          /\ frame[p].tree # ProposedTree(fn, p)
                    /\ ReturnedFrom(p, fn) =>
                          \A ks \in LeafPaths(frame[p].ret) :
                              /\ BasePath(fn) \o ks \in DOMAIN zk
                              /\ TreeGet(frame[p].ret, ks)
                                     = json_loads(zk[BasePath(fn) \o ks].value)
              /\ ReturnedFrom(p, "cluster_id") =>
                    frame[p].ret = Str(decode(zk[ClusterIdPath].value))
    /\ \A p, q \in Procs : \A a \in hist[p].rets : \A b \in hist[q].rets :
          a[1] \in CreateFns \cup {"cluster_id"} /\ a[1] = b[1] => a[2] = b[2]
    /\ \A p, q \in Procs :
          /\ Rerun(p) /\ ~Rerun(q)
          /\ wf[p] = wf[q] /\ pc[p] = "done" /\ pc[q] = "done"
          => secrets[p] = secrets[q] /\ frame[p].ret = frame[q].ret

\* C20: a workflow that aborts after any step and is invoked again from the
\* beginning proposes fresh values, every consensus path that held a value
\* keeps it, and the run invoked again holds what is stored and returns what
\* the runs that were never interrupted return: it ends with their secrets.
C20_RestartFromScratch ==
    [][ /\ \A path \in DOMAIN zk :
              zk[path].by # 0 =>
                  /\ path \in DOMAIN zk'
                  /\ zk'[path].value = zk[path].value
                  /\ zk'[path].by = zk[path].by
        /\ RestartedHolds' ]_vars

\* a master workflow that aborted has been invoked again and has ended with
\* the secrets of the master that was never interrupted; a value the
\* aborted run had stored is still there, though the run invoked again
\* proposed another for the path, and what it holds is not what it proposed
C20_Witness ==
    \E p, q \in Procs : \E a, b \in hist[p].proposals :
        /\ Rerun(p) /\ ~Rerun(q)
        /\ wf[p] = "dcos_3dt_master" /\ wf[q] = "dcos_3dt_master"
        /\ pc[p] = "done" /\ pc[q] = "done"
        /\ secrets[p] = secrets[q]
        /\ a[1] = b[1] /\ a[2] # b[2]
        /\ Below(MasterSecretsPath, a[1])
        /\ zk[a[1]].by = p /\ zk[a[1]].value = a[2]
        /\ secrets[p] # MergeIntoSecrets(MasterSecrets(opts, Seed(p)),
                                         AgentSecrets(Seed(p)))
        /\ \E path \in DOMAIN zk : zk[path].by = q

(* The configuration generator *)

\* the first and the second part of the credentials: the username up to the
\* first colon and the password after it
UsernameOf(credentials) == SubSeq(credentials, 1, find(credentials, ":", 1) - 1)
PasswordOf(credentials) ==
    SubSeq(credentials, find(credentials, ":", 1) + 1, Len(credentials))

\* the reference digest of a username and a password
ReferenceDigest(username, password) ==
    username \o <<":">>
    \o b64encode(sha1(utf8_encode(username \o <<":">> \o password)))

\* C21: calculate_digest returns the empty string for empty credentials;
\* for the credentials username ':' password, split at the first colon
\* only, it returns the reference digest of the username and the password,
\* whatever colons the password contains.
C21_Digest ==
    args.fn = "calculate_digest" /\ result.state # "pending" =>
        /\ result.state = "returned"
        /\ args.credentials = <<>> => result.value = <<>>
        /\ args.credentials # <<>> =>
              \E u \in Strings(MaxUser, {"u"}) : \E pw \in Strings(MaxPass, {"p", ":"}) :
                  /\ args.credentials = u \o <<":">> \o pw
                  /\ u = UsernameOf(args.credentials)
                  /\ pw = PasswordOf(args.credentials)
                  /\ result.value = ReferenceDigest(u, pw)

\* the digest of a credential whose password contains colons
C21_Witness ==
    /\ args.fn = "calculate_digest"
    /\ args.credentials = <<"u", ":", "p", ":", ":">>
    /\ result = Ret(<<"u", ":", "b64(sha1<<117, 58, 112, 58, 58>>)">>)

\* C22: for a security value that is none of strict, permissive and
\* disabled, every function keyed by the security mode raises and returns
\* no value (for the three modes it returns the entry of the mode);
\* calculate_superuser_credentials_given raises AssertionError when exactly
\* one of the username and the password hash is empty, returns 'true' only
\* when neither is empty and 'false' only when both are.
C22_FailFast ==
    result.state # "pending" =>
        /\ args.fn \in DOMAIN SecurityKeyed \cup PortFns =>
              /\ args.a[1] \notin Modes =>
                    /\ result.state = "raised"
                    /\ result.exc \in {"KeyError", "AssertionError"}
                    /\ result.value = <<>>
              /\ args.a[1] \in Modes => result.state = "returned"
              /\ args.fn \in DOMAIN SecurityKeyed /\ args.a[1] \in Modes =>
                    result.value = SecurityKeyed[args.fn][args.a[1]]
        /\ args.fn = "calculate_superuser_credentials_given" =>
              LET given == {i \in 1..2 : args.a[i] # ""}
                  returns(value) ==
                      result.state = "returned" /\ result.value = value
              IN  /\ Cardinality(given) = 1 <=>
                        result.state = "raised" /\ result.exc = "AssertionError"
                  /\ Cardinality(given) = 2 <=> returns("true")
                  /\ Cardinality(given) = 0 <=> returns("false")

\* a port function has raised for a security value that differs from a
\* mode by a trailing space
C22_Witness ==
    /\ args = CalcCall("calculate_marathon_port", <<"permissive ">>)
    /\ result = Exc("AssertionError")

\* a username without a password hash has raised
SuperuserHalfGiven ==
    /\ args = CalcCall("calculate_superuser_credentials_given", <<"admin", "">>)
    /\ result = Exc("AssertionError")

-----------------------------------------------------------------------------
(* The identity service *)

\* the request the identity service has answered in this step
IamAnswered == reqs'[Len(reqs')]

\* master p has had its creation of the account uid answered "exists"
FoundRegistered(p, uid) ==
    \E i \in DOMAIN reqs :
        /\ reqs[i].by = p
        /\ reqs[i].req.op = "create_service_account"
        /\ reqs[i].req.uid = uid
        /\ reqs[i].status = 409

\* C23: a create_service_account that finds the account already registered
\* is a success: the call does not abort the workflow, and when superuser
\* was requested its next request adds the uid to the superusers group.
C23_ExistsIsSuccess ==
    [][\A p \in Masters :
         (/\ Len(reqs') = Len(reqs) + 1
          /\ IamAnswered.by = p
          /\ IamAnswered.req.op = "create_service_account"
          /\ IamAnswered.status = 409)
         => /\ ipc'[p] # "failed"
            /\ iloc[p].call.ops = create_service_account(IamAnswered.req.uid, TRUE)
               => /\ ipc'[p] = "run"
                  /\ Head(iloc'[p].ops)
                       = Req("add_user_to_group", IamAnswered.req.uid, <<"superusers">>)]_vars

\* two masters have registered dcos_adminrouter: the second found the
\* account registered, added it to the superusers and completed its call
C23_Witness ==
    \E p \in Masters :
        /\ FoundRegistered(p, "dcos_adminrouter")
        /\ ipc[p] = "done"
        /\ iloc[p].completed = <<<<"create_service_account", "dcos_adminrouter">>>>
        /\ \E i \in DOMAIN reqs :
               /\ reqs[i].by = p
               /\ reqs[i].req.op = "add_user_to_group"
               /\ reqs[i].status = 204

\* the resources of the Mesos master that are not qualified
Unqualified ==
    {"dcos:mesos:master:" \o kind :
         kind \in {"framework", "reservation", "task", "volume"}}

\* the resources qualified by a role, a principal, a user or an application
Qualified ==
    {resource \o ":" \o qualifier :
         resource \in Unqualified,
         qualifier \in {"role:slave_public", "role:*",
                        "principal:dcos_marathon", "user:nobody", "app_id"}}

\* the (resource, action) list of a framework in a security mode
PolicyTable ==
    [ dcos_marathon |-> marathon_acls, dcos_metronome |-> metronome_acls ]

\* the requests master p has had answered
RequestsBy(p) == {i \in DOMAIN reqs : reqs[i].by = p}

\* C28: marathon_iam_acls and metronome_iam_acls submit, for the uid of the
\* framework itself, exactly the list of the security mode: in strict mode
\* only qualified resources, in permissive mode only unqualified ones; in
\* disabled mode they make no request.
C28_PolicyTable ==
    \A p \in Masters :
        /\ \A i \in RequestsBy(p) :
               reqs[i].req.op = "create_acls"
               => /\ iloc[p].security \in {"strict", "permissive"}
                  /\ reqs[i].req.uid = iloc[p].wf
                  /\ reqs[i].req.body = PolicyTable[iloc[p].wf][iloc[p].security]
                  /\ \A a \in Range(reqs[i].req.body) :
                         /\ a[2] \in {"create", "delete"}
                         /\ iloc[p].security = "strict" => a[1] \in Qualified
                         /\ iloc[p].security = "permissive" => a[1] \in Unqualified
        /\ iloc[p].security = "disabled"
           => /\ \A i \in RequestsBy(p) : reqs[i].req.op # "create_acls"
              /\ \A c \in Range(iloc[p].calls) \cup {iloc[p].call} :
                     c.fn \in {"marathon_iam_acls", "metronome_iam_acls"}
                     => c.ops = <<>>

\* a strict cluster: both frameworks have had their lists accepted
C28_Witness ==
    /\ \E i \in DOMAIN reqs :
           /\ reqs[i].req = Req("create_acls", "dcos_marathon", marathon_acls.strict)
           /\ reqs[i].status = 204
    /\ \E i \in DOMAIN reqs :
           /\ reqs[i].req = Req("create_acls", "dcos_metronome", metronome_acls.strict)
           /\ reqs[i].status = 204

\* a cluster with security disabled: marathon_iam_acls has returned
DisabledAclsReturned ==
    \E p \in Masters :
        /\ iloc[p].security = "disabled"
        /\ <<"marathon_iam_acls", "dcos_marathon">> \in Range(iloc[p].completed)
        /\ RequestsBy(p) = {}

\* C29: in dcos_marathon and dcos_metronome, whenever the permissions of a
\* uid are submitted, create_service_account for that uid has completed
\* earlier in the same run.
C29_AccountBeforeAcls ==
    \A p \in Masters :
        /\ \A i \in RequestsBy(p) :
               reqs[i].req.op = "create_acls"
               => <<"create_service_account", reqs[i].req.uid>>
                      \in Range(iloc[p].completed)
        /\ Requesting(p, "create_acls")
           => <<"create_service_account", Head(iloc[p].ops).uid>>
                  \in Range(iloc[p].completed)

\* dcos_metronome is about to submit its permissions, after its account
C29_Witness ==
    \E p \in Masters :
        /\ Requesting(p, "create_acls")
        /\ iloc[p].wf = "dcos_metronome"
        /\ iloc[p].completed = <<<<"create_service_account", "dcos_metronome">>>>
        /\ \E i \in RequestsBy(p) :
               /\ reqs[i].req.op = "create_service_account"
               /\ reqs[i].req.uid = "dcos_metronome"

-----------------------------------------------------------------------------
(* The order of the commands of _consensus *)

\* run p has had a command answered, or has begun a call, in this step
Moved(p) == frame'[p] # frame[p] \/ pos'[p] # pos[p]

\* run p is about to send command op after this step
SendingNext(p, op) == pc'[p] = "run" /\ Head(frame'[p].ops).op = op

\* C24: within every _consensus call the read is preceded by a sync on the
\* same path and the sync comes after the call's own create attempt: a read
\* is sent only when a sync on its path has just been answered, a create
\* that was answered is followed by the sync on its path and a sync by the
\* read on its path, whose answer is the value the store holds then.
C24_SyncBeforeRead ==
    [][\A p \in Runs :
         /\ (Moved(p) /\ SendingNext(p, "get"))
            => /\ Sending(p, "sync")
               /\ Cmd(p).path = Head(frame'[p].ops).path
         /\ (Moved(p) /\ Sending(p, "sync"))
            => /\ SendingNext(p, "get")
               /\ Head(frame'[p].ops).path = Cmd(p).path
         /\ (Moved(p) /\ Sending(p, "create") /\ pc'[p] # "failed")
            => /\ SendingNext(p, "sync")
               /\ Head(frame'[p].ops).path = Cmd(p).path
         /\ (Moved(p) /\ Sending(p, "get"))
            => /\ Cmd(p).path \in DOMAIN zk
               /\ frame'[p].val = zk[Cmd(p).path].value]_vars

\* a run that has attempted its create and synced is about to read a value
\* that another run has created
C24_Witness ==
    \E p \in Procs :
        /\ Sending(p, "get")
        /\ Cmd(p).path \in view[p]
        /\ \E v \in {zk[Cmd(p).path].value} :
               /\ <<Cmd(p).path, v>> \notin hist[p].proposals
               /\ \E w \in hist[p].proposals : w[1] = Cmd(p).path

-----------------------------------------------------------------------------
(* _create_secrets over a store left behind *)

\* the paths of the leaves the run has proposed a value for
ProposedPaths ==
    {mat.sent[i].path :
         i \in {j \in DOMAIN mat.sent : mat.sent[j].op = "create"}}

\* the ACL the earlier run has left on a path
LeftAcl(path) == mat.zk0[path].acl

-----------------------------------------------------------------------------
(* The path above a leaf *)

\* run p is inside _create_secrets
Materializing(p) ==
    frame[p].fn \in {"create_master_secrets", "create_agent_secrets"}

-----------------------------------------------------------------------------
(* The order of the keys *)

\* the store and the tree _create_secrets ends with, had it gone over the
\* keys of the level in the given order
InOrder(order) ==
    Materialized(mat.zk0, mat.secrets,
                 CreateSecretsOps(mat.basepath, mat.secrets, mat.acl, order, <<>>),
                 Current)

\* C27: for a fixed store and a fixed tree, every order in which
\* _create_secrets goes over sibling keys yields the same returned tree and
\* the same store, values and ACLs at every path.
C27_OrderIndependence ==
    mat.pc = "done"
    => \A order \in Orders(mat.secrets) :
           /\ InOrder(order).tree = mat.tree
           /\ DOMAIN InOrder(order).zk = DOMAIN zk
           /\ \A path \in DOMAIN zk :
                  /\ InOrder(order).zk[path].value = zk[path].value
                  /\ InOrder(order).zk[path].acl = zk[path].acl

\* the keys were gone over in another order than that of the source's
\* literal; some leaves were there, others were made
C27_Witness ==
    /\ mat.pc = "done"
    /\ mat.order # Items(mat.secrets)
    /\ ProposedPaths \cap DOMAIN mat.zk0 # {}
    /\ ProposedPaths \ DOMAIN mat.zk0 # {}
    /\ mat.tree # mat.secrets

-----------------------------------------------------------------------------
(* The fixture of the integration tests *)

\* iam_reset_undecorated has been called
ResetCalled == fx.reset > 0

\* C30: iam_verify_and_reset yields into the test only if the verification
\* before the test has succeeded, and performs the reset in every case: the
\* generator does not end without having called iam_reset_undecorated, and
\* it calls it in the end whether the verification failed, the test passed
\* or the test raised.
C30_VerifyThenAlwaysReset ==
    /\ []((fx.yielded \/ fx.test # "") => fx.verified = "ok")
    /\ []((fx.pc = "yield" /\ fx.test = "")
          => iam_verify_undecorated(fx.st) = "ok")
    /\ [](fx.pc = "exit" => ResetCalled)
    /\ <>ResetCalled

\* the test has raised and the reset has removed what it left
C30_Witness ==
    /\ fx.pc = "exit"
    /\ fx.test = "raised"
    /\ fx.reset = 5
    /\ fx.raised = ""
    /\ iam_verify_undecorated(fx.st) = "ok"

\* the verification has failed: the test has not run, the reset was made
VerifyFailedReset ==
    /\ fx.pc = "exit"
    /\ fx.verified = "AssertionError"
    /\ ~fx.yielded /\ fx.test = ""
    /\ fx.reset = 5

\* the test has passed and the reset was made
TestPassedReset ==
    /\ fx.pc = "exit"
    /\ fx.test = "passed"
    /\ fx.reset = 5

-----------------------------------------------------------------------------
(* Readers before the writers *)

\* what read_agent_secrets has returned to run p
ReadAgentReturns(p) == {r[2] : r \in {h \in hist[p].rets : h[1] = "read_agent_secrets"}}

\* C31: a reader-only _consensus on a path that no writer has created fails
\* (the run does nothing else in its place: it neither waits nor gets an
\* empty value) and leaves the store as it is, so that read_agent_secrets
\* returns the credentials of all the agent services or does not return.
C31_ReaderFails ==
    [][\A p \in Runs :
         /\ (/\ Sending(p, "get")
             /\ Cmd(p).path \notin DOMAIN zk
             /\ (pc'[p] # pc[p] \/ frame'[p] # frame[p]))
            => /\ pc'[p] = "failed"
               /\ zk' = zk
               /\ secrets'[p] = secrets[p]
               /\ hist'[p] = hist[p]
         /\ \A ret \in ReadAgentReturns(p)' :
                /\ DOMAIN ret.kv["services"].kv = Range(agent_services)
                /\ \A svc \in Range(agent_services) :
                       ret.kv["services"].kv[svc]
                           = json_loads(zk'[AgentSecretPath(svc)].value)]_vars

\* read_agent_secrets has read the credentials of the first agent service
\* and has failed on the second, which no writer had created yet
C31_Witness ==
    \E p \in Procs :
        /\ pc[p] = "failed"
        /\ frame[p].fn = "read_agent_secrets"
        /\ Cmd(p).op = "get"
        /\ Cmd(p).path = AgentSecretPath(agent_services[2])
        /\ Cmd(p).path \notin DOMAIN zk
        /\ DOMAIN secrets[p].kv["services"].kv = {agent_services[1]}
        /\ ReadAgentReturns(p) = {}

-----------------------------------------------------------------------------
(* The root CA *)

\* the path of the record that holds the root CA key and certificate
RootCARecordPath == MasterSecretsPath \o <<"CA", "RootCA">>

\* the key and the certificate a Bootstrapper generates together
GeneratedBy(seed) == MasterSecrets(opts, seed).kv["CA"].kv["RootCA"]

\* the seeds Bootstrappers draw from
AllSeeds == 1..((MaxRestarts + 1) * (Earlier + Len(EarlierWorkflows)))

\* C32: the root CA key and certificate a master holds after
\* create_master_secrets were generated together by one process, the value
\* at /dcos/RootCA is the certificate of the record at
\* /dcos/master/secrets/CA/RootCA, and it is what every write_CA_certificate
\* has returned for the certificate file.
C32_RootCA ==
    /\ \A p \in Runs :
           "CA" \in DOMAIN secrets[p].kv
           => /\ \E seed \in AllSeeds :
                     secrets[p].kv["CA"].kv["RootCA"] = GeneratedBy(seed)
              /\ RootCARecordPath \in DOMAIN zk
              /\ secrets[p].kv["CA"].kv["RootCA"]
                     = json_loads(zk[RootCARecordPath].value)
    /\ RootCAPath \in DOMAIN zk
       => /\ RootCARecordPath \in DOMAIN zk
          /\ zk[RootCAPath].value
                 = encode(json_loads(zk[RootCARecordPath].value).kv["certificate"].s)
    /\ \A p \in Runs :
           ReturnedFrom(p, "write_CA_certificate")
           => frame[p].val = zk[RootCAPath].value

\* two masters have generated a root CA each; the record is that of one of
\* them, /dcos/RootCA was created by the other, and both have returned the
\* same certificate
C32_Witness ==
    \E p, q \in Procs :
        /\ p # q
        /\ ReturnedFrom(p, "write_CA_certificate")
        /\ ReturnedFrom(q, "write_CA_certificate")
        /\ zk[RootCARecordPath].by = p
        /\ zk[RootCAPath].by = q
        /\ secrets[q].kv["CA"].kv["RootCA"] = GeneratedBy(Seed(p))
        /\ frame[p].val = frame[q].val


----------------------------------------------------------------------------
(* The role workflows *)

\* the uid the next step of the workflow looks up in the secrets, "" if none
UidUsed ==
    IF role.pc = "run" /\ role.steps # <<>>
         /\ NextStep.op \in {"lookup", "token", "ensure"}
    THEN NextStep.uid
    ELSE ""

\* the uids of the master and of the agent account lists
AccountLists(security) ==
    Range(all_master_service_accounts(security)) \cup Range(self_agent_services)

\* C33: Every service-account uid a role workflow looks up in the secrets of
\* its run (create_service_account, write_service_account_credentials,
\* service_auth_token / write_service_auth_token, the service_account of
\* ensure_key_certificate) has been materialized or read into the secrets
\* earlier in the run, and is a uid of the master or of the agent account
\* list; no workflow ends with the KeyError of a lookup.
C33_UidsMaterialized ==
    /\ UidUsed # "" =>
          /\ UidUsed \in role.held
          /\ UidUsed \in AccountLists(role.security)
    /\ role.exc = "KeyError" => NextStep.op = "zklookup"

\* the workflow is dcos_erlang_service_agent
ErlangAgent ==
    /\ role.name \in {"dcos-minuteman", "dcos-navstar", "dcos-networking_api"}
    /\ ~role.master

\* C34: For every service name and both values of ssl_enabled,
\* dcos_erlang_service_agent changes the owner only of key and certificate
\* paths it has bound and ensured earlier in the run, and it gets to the step
\* that writes the service auth token (unless the agent secrets are not in
\* the store yet).
C34_ChownDefinedTokenReached ==
    ErlangAgent =>
        /\ AtStep("chown") /\ NextStep.names \subseteq {"key", "crt"} =>
              NextStep.names \subseteq (role.bound \cap role.ensured)
        /\ role.pc = "done" => role.tokens # {}
        /\ role.pc = "failed" =>
              role.exc = "NoNodeError" \/ NextStep.op = "token"

----------------------------------------------------------------------------
(* The ACLs of the service paths *)

\* the path of the store carries the ACL a per-service function applies:
\* the localhost entry and a digest entry, and no entry that gives anyone
\* all permissions
Restricted(store, path) ==
    /\ path \in DOMAIN store
    /\ LOCALHOST_ALL[1] \in Range(store[path].acl)
    /\ \E e \in Range(store[path].acl) : e.scheme = "digest"
    /\ ANYONE_ALL[1] \notin Range(store[path].acl)

\* C35: With ACLs enabled, once a per-service ACL function has applied the
\* restricted ACL to its path, the path keeps a restricted ACL through every
\* later step of any master workflow, each of which begins with
\* init_zk_acls; /cosmos does not go back to an ACL that gives anyone all
\* permissions.
C35_ServiceAclStable ==
    [][\A fn \in DOMAIN ServiceAclFns :
          Restricted(zk, ServiceAclFns[fn].path) =>
              Restricted(zk', ServiceAclFns[fn].path)]_vars

----------------------------------------------------------------------------
(* An issuance that is cut short *)

\* the key and the certificate at the paths were issued together: the
\* certificate is the one signed for the key, or they are the pair that an
\* earlier boot has left
IssuedTogether(files) ==
    LET key == files[KeyFile].data
        crt == files[CrtFile].data
    IN  \/ key = <<"PRIVATE KEY", "key0">> /\ crt = <<"BEGIN CERTIFICATE", "crt0">>
        \/ /\ key[1] = "PRIVATE KEY" /\ crt[1] = "BEGIN CERTIFICATE"
           /\ key[2] # "key0" /\ crt[2] = key[2]

\* the create_key_certificate of process p has ended before its return
CutShort(p) ==
    hpc[p] = "failed" /\ Ensuring(p) /\ hloc[p].cert = "Invalid"

\* the ensure_key_certificate of process q judges the pair Valid, after the
\* issuance of another process was cut short
JudgesValidAfterAbort(q) ==
    /\ Ensuring(q) /\ Doing(q, "check")
    /\ hloc'[q].cert = "Valid"
    /\ \E p \in HostProcs \ {q} : CutShort(p)

\* create_key_certificate writes the key file before the certificate file
KeyBeforeCrt ==
    \A p \in HostProcs :
        Ensuring(p) /\ Doing(p, "open") /\ HCmd(p).file = CrtFile
            /\ HostStepOf(p) =>
                hloc[p].wrote = <<<<KeyFile, hloc[p].privkey_pem>>>>

\* the certificate file was written by an issuance of this boot
CrtWritten == \E p \in HostProcs : CrtFile \in Range(hloc[p].opened)

----------------------------------------------------------------------------
(* The discipline of the locks *)

\* the directories whose lock process p holds
Held(p) == {dir \in Dirs : p \in lock[dir]}

\* process p waits for the lock on the directory
WaitsFor(p, dir) == Doing(p, "lock") /\ dirname(HCmd(p).file) = dir

\* C37: A process holds at most one directory lock at a time, asks for a
\* lock only while it holds none, and holds none once its call has
\* returned or has ended with an exception; so the processes of a host do
\* not deadlock, and as long as the store and the services answer, every
\* process that waits for a lock gets it.
C37_LockDiscipline ==
    /\ [](\A p \in HostProcs :
            /\ Cardinality(Held(p)) <= 1
            /\ Doing(p, "lock") => Held(p) = {}
            /\ hpc[p] \in {"ready", "done", "failed"} => Held(p) = {})
    /\ \A p \in HostProcs : \A dir \in Dirs :
           WaitsFor(p, dir) ~> (p \in lock[dir])

\* a cluster_id has ended with an exception inside its locked block, and
\* the other process, which asked for the same lock, holds it
C37_Witness ==
    \E p, q \in HostProcs :
        /\ p # q
        /\ hpc[q] = "failed" /\ hloc[q].call.fn = "cluster_id"
        /\ hloc[p].call.fn = "cluster_id"
        /\ lock[dirname(ClusterIdFile)] = {p}

----------------------------------------------------------------------------
(* The key of a service account *)

\* the private key of the credential the store holds for the account
StoredPrivateKey ==
    json_loads(zk[AccountPath(acct.uid)].value).kv["private_key"].s

\* C38: The public key a master submits with create_service_account for a
\* uid is the public key of the private key stored at the consensus path of
\* the uid; whatever the interleaving, all masters submit the same public
\* key, and the key the identity service has registered from the first of
\* them is the public key of the credential every node logs in with, so
\* that no login with it is denied.
C38_OneKeyPerAccount ==
    /\ \A p \in Masters :
          acct.submitted[p] # "" =>
              /\ AccountPath(acct.uid) \in DOMAIN zk
              /\ acct.submitted[p] = public_key_pem(StoredPrivateKey)
    /\ \A p, q \in Masters :
          acct.submitted[p] # "" /\ acct.submitted[q] # "" =>
              acct.submitted[p] = acct.submitted[q]
    /\ acct.uid \in DOMAIN acct.registered =>
          /\ acct.registered[acct.uid].public_key
                 = public_key_pem(StoredPrivateKey)
          /\ \A n \in Nodes :
                acct.account[n] # EmptyDict =>
                    public_key_pem(acct.account[n].kv["private_key"].s)
                        = acct.registered[acct.uid].public_key
    /\ \A n \in Nodes : acct.login[n] # "denied"

\* the credential in the store is the one a master proposed, the account was
\* registered by the other master, both have submitted a key, and a node
\* has logged in with the credential
C38_Witness ==
    /\ AccountPath(acct.uid) \in DOMAIN zk
    /\ acct.uid \in DOMAIN acct.registered
    /\ acct.registered[acct.uid].by # zk[AccountPath(acct.uid)].by
    /\ \A p \in Masters : acct.submitted[p] # ""
    /\ \E n \in Nodes : acct.login[n] = "token"

----------------------------------------------------------------------------
(* The flags of a security mode *)

\* the flags that are on in every mode but 'disabled'
EnabledFlags ==
    {"zk_acls_enabled", "ssl_enabled", "marathon_https_enabled",
     "framework_authentication_enabled", "agent_authn_enabled",
     "mesos_authenticate_http"}

\* C39: In each security mode zk_acls_enabled, ssl_enabled,
\* marathon_https_enabled, framework_authentication_enabled,
\* agent_authn_enabled and mesos_authenticate_http have one value, true
\* exactly when the mode is not 'disabled', and
\* framework_authentication_required and agent_authentication_required are
\* true only where the corresponding flag is; so a step that is guarded by
\* ssl_enabled and reads a credential of the coordination store
\* (write_metronome_env) finds the credential in the secrets of its run.
C39_FlagsConsistent ==
    LET config == opts_config(role.security) IN
    /\ \A flag \in EnabledFlags : config[flag] = (role.security # "disabled")
    /\ config.framework_authentication_required =>
          config.framework_authentication_enabled
    /\ config.agent_authentication_required => config.agent_authn_enabled
    /\ AtStep("zklookup") => NextStep.uid \in role.zkheld
    /\ role.pc = "failed" => NextStep.op # "zklookup"

\* dcos_metronome has read the credential of the store in write_metronome_env
\* and has returned
C39_Witness ==
    /\ role.name = "dcos-metronome" /\ role.pc = "done"
    /\ <<"write_metronome_env", "dcos_metronome">> \in role.looked
    /\ "dcos_metronome" \in role.zkheld

----------------------------------------------------------------------------
(* An answer that is lost *)

\* run p sends again a create that the store has applied
SendsAgain(p) ==
    /\ Sending(p, "create")
    /\ Cmd(p).path \in DOMAIN zk
    /\ zk[Cmd(p).path].by = p
    /\ zk[Cmd(p).path].value = Cmd(p).value

\* C40: If the store has applied the create of a run and the run, having
\* seen the connection lost, sends the command again, the 'node already
\* exists' of the second create is passed over as for a run that has lost
\* the race: the run does not abort and the store is left as it is, the run
\* gets back the value it has written itself, and all runs that have got a
\* value for the path have got the same.
C40_LostCreateResponse ==
    /\ [][\A p \in Runs :
            SendsAgain(p) /\ StepOf(p) =>
                /\ pc'[p] # "failed"
                /\ zk' = zk
                /\ SendingNext(p, "sync")
                /\ Head(frame'[p].ops).path = Cmd(p).path]_vars
    /\ [](\A p \in Runs : \A g \in hist[p].got :
            /\ zk[g[1]].by = p => g \in hist[p].proposals
            /\ \A q \in Runs : \A h \in hist[q].got :
                   g[1] = h[1] => g[2] = h[2])

\* a run has sent the create of the cluster id twice and has got back the
\* id it has proposed, and so has another run that has proposed another id
C40_Witness ==
    \E p, q \in Procs : \E v \in hist[q].proposals :
        /\ p # q
        /\ frame[p].fn = "cluster_id" /\ pc[p] \in {"idle", "done"}
        /\ frame[p].attempts = 2
        /\ zk[ClusterIdPath].by = p
        /\ <<ClusterIdPath, zk[ClusterIdPath].value>> \in hist[p].got
        /\ <<ClusterIdPath, zk[ClusterIdPath].value>> \in hist[q].got
        /\ v[1] = ClusterIdPath /\ v[2] # zk[ClusterIdPath].value
====
